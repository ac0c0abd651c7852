------------------------------- MODULE Interp -------------------------------
(* The arms of the bytecode interpreter (interp.rs, run_at): for every
   instruction the function of the runtime that does the work - its kernel -
   and the order in which the arm hands it the operands.  An arm that does the
   work itself has the instruction for a kernel.  Control flow, slots, printf
   and print are left out: they call no kernel of their own.  *)
EXTENDS Bytecode

Inline(S) == [x \in S |-> x]

\* Constants, the environment, codecs.
RunScalars ==
  Inline({"StoreConstStr", "StoreConstInt", "StoreConstFloat", "Version",
      "Systime"}) @@
  Pairs({
      <<"IntToStr", "convert">>,
      <<"FloatToStr", "convert">>, <<"Uuid", "uuid">>,
      <<"SnowFlake", "snowflake">>, <<"Ulid", "ulid">>, <<"Tsid", "tsid">>,
      <<"Whoami", "username">>, <<"Os", "os">>, <<"OsFamily", "os_family">>,
      <<"Arch", "arch">>, <<"Pwd", "pwd">>, <<"UserHome", "user_home">>,
      <<"GetEnv", "getenv">>, <<"LocalIp", "local_ip">>,
      <<"Encode", "encode">>, <<"Decode", "decode">>,
      <<"Digest", "digest">>, <<"Escape", "escape">>, <<"Hmac", "hmac">>,
      <<"Jwt", "jwt">>, <<"Dejwt", "dejwt">>, <<"Encrypt", "encrypt">>,
      <<"Decrypt", "decrypt">>})

\* Time, evaluation and parsers.
RunParse ==
  Pairs({
      <<"Strftime", "strftime">>, <<"Mktime", "mktime">>,
      <<"Duration", "duration">>, <<"MkBool", "mkbool">>,
      <<"MkPassword", "generate_password">>, <<"Fend", "fend">>,
      <<"MapStrIntEval", "eval_int_context">>,
      <<"MapStrFloatEval", "eval_float_context">>,
      <<"MapStrStrEval", "eval_context">>, <<"Eval", "eval">>,
      <<"Url", "url">>, <<"Pairs", "pairs">>, <<"Parse", "parse">>,
      <<"RegexParse", "rparse">>, <<"Record", "record">>,
      <<"Message", "message">>, <<"SemVer", "semver">>, <<"Path", "path">>,
      <<"DataUrl", "data_url">>, <<"DateTime", "datetime">>,
      <<"Shlex", "shlex">>, <<"Tuple", "tuple">>, <<"Flags", "flags">>,
      <<"ParseArray", "parse_array">>, <<"Hex2Rgb", "hex2rgb">>})

\* Parsers, the network and JSON.
RunServices ==
  Inline({"IntToJson", "FloatToJson", "NullToJson"}) @@
  Pairs({
      <<"Rgb2Hex", "rgb2hex">>, <<"Variant", "variant">>,
      <<"Func", "func">>, <<"HttpGet", "http_get">>,
      <<"HttpPost", "http_post">>, <<"SendMail", "send_mail">>,
      <<"SmtpSend", "smtp_send">>, <<"S3Get", "get_object">>,
      <<"S3Put", "put_object">>, <<"FromJson", "from_json">>,
      <<"MapIntIntToJson", "map_int_int_to_json">>,
      <<"MapIntFloatToJson", "map_int_float_to_json">>,
      <<"MapIntStrToJson", "map_int_str_to_json">>,
      <<"MapStrIntToJson", "map_str_int_to_json">>,
      <<"MapStrFloatToJson", "map_str_float_to_json">>,
      <<"MapStrStrToJson", "map_str_str_to_json">>,
      <<"StrToJson", "str_to_json">>})

\* Documents, dumps and sorting.
RunDocuments ==
  Inline({
      "DumpMapIntInt", "DumpMapIntFloat", "DumpMapIntStr", "DumpMapStrInt",
      "DumpMapStrFloat", "DumpMapStrStr", "DumpStr", "DumpInt", "DumpFloat",
      "DumpNull"}) @@
  Pairs({
      <<"JsonValue", "json_value">>, <<"JsonQuery", "json_query">>,
      <<"HtmlValue", "html_value">>, <<"HtmlQuery", "html_query">>,
      <<"XmlValue", "xml_value">>, <<"XmlQuery", "xml_query">>,
      <<"MapIntIntAsort", "map_int_int_asort">>,
      <<"MapIntFloatAsort", "map_int_float_asort">>,
      <<"MapIntStrAsort", "map_int_str_asort">>,
      <<"MapIntIntJoin", "map_int_int_join">>,
      <<"MapIntFloatJoin", "map_int_float_join">>,
      <<"MapIntStrJoin", "map_int_str_join">>})

\* Arrays, stores and logs.
RunArrays ==
  Pairs({
      <<"MapIntIntMax", "map_int_int_max">>,
      <<"MapIntFloatMax", "map_int_float_max">>,
      <<"MapIntIntMin", "map_int_int_min">>,
      <<"MapIntFloatMin", "map_int_float_min">>,
      <<"MapIntIntSum", "map_int_int_sum">>,
      <<"MapIntFloatSum", "map_int_float_sum">>,
      <<"MapIntIntMean", "map_int_int_mean">>,
      <<"MapIntFloatMean", "map_int_float_mean">>,
      <<"FromCsv", "from_csv">>, <<"MapIntIntToCsv", "map_int_int_to_csv">>,
      <<"MapIntFloatToCsv", "map_int_float_to_csv">>,
      <<"MapIntStrToCsv", "map_int_str_to_csv">>, <<"KvGet", "kv_get">>,
      <<"KvPut", "kv_put">>, <<"KvDelete", "kv_delete">>,
      <<"KvClear", "kv_clear">>, <<"ReadAll", "read_all">>,
      <<"WriteAll", "write_all">>, <<"ReadConfig", "read_config">>,
      <<"LogDebug", "log_debug">>, <<"LogInfo", "log_info">>,
      <<"LogWarn", "log_warn">>, <<"LogError", "log_error">>})

\* Databases, filters and text.
RunStores ==
  Pairs({
      <<"SqliteQuery", "sqlite_query">>,
      <<"SqliteExecute", "sqlite_execute">>,
      <<"LibsqlQuery", "libsql_query">>,
      <<"LibsqlExecute", "libsql_execute">>,
      <<"MysqlQuery", "mysql_query">>, <<"MysqlExecute", "mysql_execute">>,
      <<"PgQuery", "pg_query">>, <<"PgExecute", "pg_execute">>,
      <<"Publish", "publish">>, <<"BloomFilterInsert", "bf_insert">>,
      <<"BloomFilterContains", "bf_icontains">>,
      <<"BloomFilterContainsWithInsert", "bf_contains">>,
      <<"Fake", "fake">>, <<"Min", "min">>, <<"Max", "max">>,
      <<"Seq", "seq">>, <<"Uniq", "uniq">>, <<"Trim", "trim">>,
      <<"Truncate", "truncate">>, <<"Strtonum", "strtonum">>,
      <<"FormatBytes", "format_bytes">>, <<"ToBytes", "to_bytes">>})

\* Text.
RunText ==
  Pairs({
      <<"StartsWith", "starts_with">>, <<"EndsWith", "ends_with">>,
      <<"TextContains", "contains">>, <<"Capitalize", "capitalize">>,
      <<"UnCapitalize", "uncapitalize">>, <<"CamelCase", "camel_case">>,
      <<"KebabCase", "kebab_case">>, <<"SnakeCase", "snake_case">>,
      <<"TitleCase", "title_case">>, <<"Figlet", "figlet">>,
      <<"PadLeft", "pad_left">>, <<"PadRight", "pad_right">>,
      <<"PadBoth", "pad_both">>, <<"StrCmp", "strcmp">>, <<"Mask", "mask">>,
      <<"Repeat", "repeat">>, <<"DefaultIfEmpty", "default_if_empty">>,
      <<"AppendIfMissing", "append_if_missing">>,
      <<"PrependIfMissing", "prepend_if_missing">>,
      <<"RemoveIfBegin", "remove_if_begin">>,
      <<"RemoveIfEnd", "remove_if_end">>, <<"Quote", "quote">>,
      <<"DoubleQuote", "double_quote">>, <<"Words", "words">>,
      <<"Lines", "lines">>})

\* Tests of types and conversions.
RunTests ==
  Inline({
      "TypeOfArray", "TypeOfNumber", "TypeOfString", "TypeOfUnassigned",
      "IsArrayTrue", "IsArrayFalse", "IsIntTrue", "IsIntFalse", "IsNumTrue",
      "IsNumFalse", "HexStrToInt", "FloatToInt", "IntToFloat"}) @@
  Pairs({
      <<"IsStrInt", "is_str_int">>, <<"IsStrNum", "is_str_num">>,
      <<"IsFormat", "is_format">>, <<"StrToInt", "strtoint">>,
      <<"StrToFloat", "strtonum">>})

\* Arithmetic and random numbers.
RunArith ==
  Inline({
      "AddInt", "AddFloat", "MulInt", "MulFloat", "MinusInt", "MinusFloat",
      "ModInt", "ModFloat", "Div", "Pow", "Not", "NotStr", "NegInt",
      "NegFloat", "Float1", "Float2", "Int1", "Int2"}) @@
  Pairs({
      <<"Rand", "gen_range">>, <<"Srand", "reseed">>,
      <<"ReseedRng", "reseed_random">>})

\* Strings and patterns.
RunStrings ==
  Inline({
      "StartsWithConst", "Concat", "Strlen", "LenStr", "Sub", "GSub",
      "GenSubDynamic"}) @@
  Pairs({
      <<"Match", "match_regex">>, <<"IsMatch", "is_match_regex">>,
      <<"MatchConst", "regex_const_match">>,
      <<"IsMatchConst", "match_const_regex">>,
      <<"SubstrIndex", "index_substr">>,
      <<"SubstrLastIndex", "last_index_substr">>,
      <<"EscapeCSV", "escape_csv">>, <<"EscapeTSV", "escape_tsv">>,
      <<"Substr", "sub_str">>, <<"CharAt", "char_at_or_panic">>,
      <<"Chars", "chars">>, <<"LastPart", "last_part">>})

\* Comparisons and columns.
RunCompare ==
  Inline({
      "LTFloat", "LTInt", "LTStr", "GTFloat", "GTInt", "GTStr", "LTEFloat",
      "LTEInt", "LTEStr", "GTEFloat", "GTEInt", "GTEStr", "EQFloat",
      "EQInt", "EQStr", "GetColumn", "JoinCSV", "JoinTSV", "JoinColumns"}) @@
  Pairs({
      <<"SetColumn", "set_col">>, <<"ToUpperAscii", "to_upper_ascii">>,
      <<"ToLowerAscii", "to_lower_ascii">>})

\* Split, close and commands.
RunCalls ==
  Inline({"Close", "Exit"}) @@
  Pairs({
      <<"SplitInt", "split_regex_intmap">>,
      <<"SplitStr", "split_regex_strmap">>, <<"RunCmd", "run_command">>,
      <<"RunCmd2", "run_command2">>})

\* The awk variables and lines of input.
RunVars ==
  Inline({
      "LoadVarStr", "StoreVarStr", "LoadVarInt", "StoreVarInt",
      "LoadVarIntMap", "StoreVarIntMap", "LoadVarStrMap", "StoreVarStrMap",
      "LoadVarStrStrMap", "StoreVarStrStrMap", "ReadErr", "NextLine",
      "ReadErrStdin", "NextLineStdin", "NextLineStdinFused", "NextFile",
      "UpdateUsedFields", "SetFI"})

\* Instructions on maps and iterators, through the macro map_regs.
RunMaps == Inline(MapOpNames)

RunKernel == RunScalars @@ RunParse @@ RunServices @@ RunDocuments @@
               RunArrays @@ RunStores @@ RunText @@ RunTests @@ RunArith @@
               RunStrings @@ RunCompare @@ RunCalls @@ RunVars @@ RunMaps

(***************************************************************************)
(* The operands an arm writes, and those its kernel gets, as positions     *)
(***************************************************************************)
\* Instructions without a destination.
NoResult ==
  {"SetColumn", "SetFI", "SendMail", "SmtpSend", "KvPut", "KvDelete", "KvClear",
   "WriteAll", "LogDebug", "LogInfo", "LogWarn", "LogError", "Publish",
   "BloomFilterInsert", "Close", "Exit", "Store", "Delete", "Clear",
   "StoreVarStr", "StoreVarInt", "StoreVarIntMap", "StoreVarStrMap",
   "StoreVarStrStrMap", "DumpMapIntInt", "DumpMapIntFloat", "DumpMapIntStr",
   "DumpMapStrInt", "DumpMapStrFloat", "DumpMapStrStr", "DumpStr", "DumpInt",
   "DumpFloat"}

From(first, last) == [k \in 1 .. last + 1 - first |-> first + k - 1]
InOrder(i) == From(IF i.op \in NoResult THEN 1 ELSE 2, Len(i.regs))

\* sub and gsub also write the string they are applied to.
Writes(i) == CASE i.op \in {"Sub", "GSub"} -> {1, 4}
               [] i.op \in NoResult \/ i.regs = <<>> -> {}
               [] OTHER -> {1}

\* What an arm hands to its kernel, where it is not the operands in order.
RunOrder ==
  [HttpPost |-> <<2, 4, 3>>, SubstrIndex |-> <<3, 2>>,
   SubstrLastIndex |-> <<3, 2>>, Escape |-> <<3, 2>>, SplitInt |-> <<4, 2, 3>>,
   SplitStr |-> <<4, 2, 3>>]
RunArgs(i) == IF i.op \in DOMAIN RunOrder THEN RunOrder[i.op] ELSE InOrder(i)
=============================================================================
