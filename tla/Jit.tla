-------------------------------- MODULE Jit --------------------------------
(* What the code generator makes of an instruction (codegen/mod.rs,
   gen_ll_inst): the function it calls, with which arguments; the signature and
   the attributes it is declared with to Cranelift or LLVM (intrinsics.rs,
   register!), and the signature and the kernel the function really has.  *)
EXTENDS Interp

(***************************************************************************)
(* gen_ll_inst: the function called; Inline where instructions are emitted *)
(***************************************************************************)
\* Constants, conversions, arithmetic, patterns.
GenArith ==
  Inline({
      "StoreConstStr", "StoreConstInt", "StoreConstFloat", "FloatToInt",
      "IntToFloat", "AddInt", "AddFloat", "MinusInt", "MinusFloat",
      "MulInt", "MulFloat", "ModInt", "ModFloat", "Div", "Pow", "Not",
      "NotStr", "NegInt", "NegFloat", "Float1", "Float2", "Int1", "Int2"}) @@
  Pairs({
      <<"IntToStr", "int_to_str">>, <<"FloatToStr", "float_to_str">>,
      <<"StrToInt", "str_to_int">>, <<"HexStrToInt", "hex_str_to_int">>,
      <<"StrToFloat", "str_to_float">>,
      <<"ToLowerAscii", "to_lower_ascii">>,
      <<"ToUpperAscii", "to_upper_ascii">>, <<"Rand", "rand_float">>,
      <<"Srand", "seed_rng">>, <<"ReseedRng", "reseed_rng">>,
      <<"Concat", "concat">>, <<"StartsWithConst", "starts_with_const">>,
      <<"Match", "match_pat_loc">>, <<"IsMatch", "match_pat">>,
      <<"MatchConst", "match_const_pat_loc">>,
      <<"IsMatchConst", "match_const_pat">>,
      <<"SubstrIndex", "substr_index">>,
      <<"SubstrLastIndex", "substr_last_index">>, <<"LenStr", "len_str">>,
      <<"Strlen", "str_len">>, <<"Sub", "subst_first">>,
      <<"GSub", "subst_all">>, <<"GenSubDynamic", "gen_subst">>})

\* Strings, comparisons, columns and the environment.
GenEnv ==
  Inline({
      "LTInt", "GTInt", "LTEInt", "GTEInt", "EQInt", "LTFloat", "GTFloat",
      "LTEFloat", "GTEFloat", "EQFloat"}) @@
  Pairs({
      <<"EscapeCSV", "escape_csv">>, <<"EscapeTSV", "escape_tsv">>,
      <<"Substr", "substr">>, <<"CharAt", "char_at">>, <<"Chars", "chars">>,
      <<"LastPart", "last_part">>, <<"LTStr", "str_lt">>,
      <<"GTStr", "str_gt">>, <<"LTEStr", "str_lte">>,
      <<"GTEStr", "str_gte">>, <<"EQStr", "str_eq">>,
      <<"SetColumn", "set_col">>, <<"GetColumn", "get_col">>,
      <<"JoinCSV", "join_csv">>, <<"JoinTSV", "join_tsv">>,
      <<"Uuid", "uuid">>, <<"SnowFlake", "snowflake">>, <<"Ulid", "ulid">>,
      <<"Tsid", "tsid">>, <<"Whoami", "whoami">>, <<"Version", "version">>,
      <<"Os", "os">>, <<"OsFamily", "os_family">>, <<"Arch", "arch">>,
      <<"Pwd", "pwd">>, <<"UserHome", "user_home">>, <<"GetEnv", "getenv">>,
      <<"LocalIp", "local_ip">>, <<"Systime", "systime">>,
      <<"Encode", "encode">>, <<"Decode", "decode">>})

\* Codecs, time, parsers and tests of types.
GenParse ==
  Pairs({
      <<"Escape", "escape">>, <<"Digest", "digest">>, <<"Hmac", "hmac">>,
      <<"Jwt", "jwt">>, <<"Dejwt", "dejwt">>, <<"Encrypt", "encrypt">>,
      <<"Decrypt", "decrypt">>, <<"Strftime", "strftime">>,
      <<"Mktime", "mktime">>, <<"Duration", "duration">>,
      <<"MkBool", "mkbool">>, <<"MkPassword", "mkpass">>,
      <<"Fend", "fend">>, <<"MapStrIntEval", "eval_int_context">>,
      <<"MapStrFloatEval", "eval_float_context">>,
      <<"MapStrStrEval", "eval_context">>, <<"Eval", "eval">>,
      <<"Url", "url">>, <<"Record", "record">>, <<"Message", "message">>,
      <<"Pairs", "pairs">>, <<"SemVer", "semver">>, <<"Path", "path">>,
      <<"DataUrl", "data_url">>, <<"DateTime", "datetime">>,
      <<"TypeOfArray", "type_of_array">>,
      <<"TypeOfNumber", "type_of_number">>,
      <<"TypeOfString", "type_of_string">>,
      <<"TypeOfUnassigned", "type_of_unassigned">>,
      <<"IsArrayTrue", "is_array_true">>,
      <<"IsArrayFalse", "is_array_false">>, <<"IsIntTrue", "is_int_true">>,
      <<"IsIntFalse", "is_int_false">>, <<"IsStrInt", "is_str_int">>,
      <<"IsNumTrue", "is_num_true">>, <<"IsNumFalse", "is_num_false">>,
      <<"IsStrNum", "is_str_num">>})

\* Parsers, databases and documents.
GenData ==
  Pairs({
      <<"IsFormat", "is_format">>, <<"Shlex", "shlex">>,
      <<"Tuple", "tuple">>, <<"Flags", "flags">>,
      <<"ParseArray", "parse_array">>, <<"Hex2Rgb", "hex2rgb">>,
      <<"Rgb2Hex", "rgb2hex">>, <<"Variant", "variant">>,
      <<"Func", "func">>, <<"SqliteQuery", "sqlite_query">>,
      <<"SqliteExecute", "sqlite_execute">>,
      <<"LibsqlQuery", "libsql_query">>,
      <<"LibsqlExecute", "libsql_execute">>,
      <<"MysqlQuery", "mysql_query">>, <<"MysqlExecute", "mysql_execute">>,
      <<"PgQuery", "pg_query">>, <<"PgExecute", "pg_execute">>,
      <<"FromJson", "from_json">>,
      <<"MapIntIntToJson", "map_int_int_to_json">>,
      <<"MapIntFloatToJson", "map_int_float_to_json">>,
      <<"MapIntStrToJson", "map_int_str_to_json">>,
      <<"MapStrIntToJson", "map_str_int_to_json">>,
      <<"MapStrFloatToJson", "map_str_float_to_json">>,
      <<"MapStrStrToJson", "map_str_str_to_json">>,
      <<"StrToJson", "str_to_json">>, <<"IntToJson", "int_to_json">>,
      <<"FloatToJson", "float_to_json">>, <<"NullToJson", "null_to_json">>,
      <<"JsonValue", "json_value">>, <<"JsonQuery", "json_query">>,
      <<"HtmlValue", "html_value">>, <<"HtmlQuery", "html_query">>,
      <<"XmlValue", "xml_value">>, <<"XmlQuery", "xml_query">>,
      <<"DumpMapIntInt", "dump_map_int_int">>})

\* Dumps, arrays and the network.
GenArrays ==
  Pairs({
      <<"DumpMapIntFloat", "dump_map_int_float">>,
      <<"DumpMapIntStr", "dump_map_int_str">>,
      <<"DumpMapStrInt", "dump_map_str_int">>,
      <<"DumpMapStrFloat", "dump_map_str_float">>,
      <<"DumpMapStrStr", "dump_map_str_str">>, <<"DumpStr", "dump_str">>,
      <<"DumpInt", "dump_int">>, <<"DumpFloat", "dump_float">>,
      <<"DumpNull", "dump_null">>,
      <<"MapIntIntAsort", "map_int_int_asort">>,
      <<"MapIntFloatAsort", "map_int_float_asort">>,
      <<"MapIntStrAsort", "map_int_str_asort">>,
      <<"MapIntIntJoin", "map_int_int_join">>,
      <<"MapIntFloatJoin", "map_int_float_join">>,
      <<"MapIntStrJoin", "map_int_str_join">>,
      <<"MapIntIntMax", "map_int_int_max">>,
      <<"MapIntFloatMax", "map_int_float_max">>,
      <<"MapIntIntMin", "map_int_int_min">>,
      <<"MapIntFloatMin", "map_int_float_min">>,
      <<"MapIntIntSum", "map_int_int_sum">>,
      <<"MapIntFloatSum", "map_int_float_sum">>,
      <<"MapIntIntMean", "map_int_int_mean">>,
      <<"MapIntFloatMean", "map_int_float_mean">>,
      <<"FromCsv", "from_csv">>, <<"MapIntIntToCsv", "map_int_int_to_csv">>,
      <<"MapIntFloatToCsv", "map_int_float_to_csv">>,
      <<"MapIntStrToCsv", "map_int_str_to_csv">>, <<"HttpGet", "http_get">>,
      <<"HttpPost", "http_post">>, <<"SendMail", "send_mail">>,
      <<"SmtpSend", "smtp_send">>, <<"S3Get", "s3_get">>,
      <<"S3Put", "s3_put">>, <<"Trim", "trim">>})

\* Text.
GenText ==
  Pairs({
      <<"Strtonum", "strtonum">>, <<"FormatBytes", "format_bytes">>,
      <<"ToBytes", "to_bytes">>, <<"StartsWith", "starts_with">>,
      <<"EndsWith", "ends_with">>, <<"TextContains", "text_contains">>,
      <<"Capitalize", "capitalize">>, <<"UnCapitalize", "uncapitalize">>,
      <<"CamelCase", "camel_case">>, <<"KebabCase", "kebab_case">>,
      <<"SnakeCase", "snake_case">>, <<"TitleCase", "title_case">>,
      <<"Figlet", "figlet">>, <<"PadLeft", "pad_left">>,
      <<"PadRight", "pad_right">>, <<"PadBoth", "pad_both">>,
      <<"StrCmp", "strcmp">>, <<"Mask", "mask">>, <<"Repeat", "repeat">>,
      <<"DefaultIfEmpty", "default_if_empty">>,
      <<"AppendIfMissing", "append_if_missing">>,
      <<"PrependIfMissing", "prepend_if_missing">>,
      <<"RemoveIfBegin", "remove_if_begin">>,
      <<"RemoveIfEnd", "remove_if_end">>, <<"Quote", "quote">>,
      <<"DoubleQuote", "double_quote">>, <<"Words", "words">>,
      <<"Lines", "lines">>, <<"Truncate", "truncate">>,
      <<"Parse", "parse">>, <<"RegexParse", "rparse">>})

\* Stores, logs, filters and split.
GenStores ==
  Pairs({
      <<"KvGet", "kv_get">>, <<"KvPut", "kv_put">>,
      <<"KvDelete", "kv_delete">>, <<"KvClear", "kv_clear">>,
      <<"ReadAll", "read_all">>, <<"WriteAll", "write_all">>,
      <<"ReadConfig", "read_config">>, <<"LogDebug", "log_debug">>,
      <<"LogInfo", "log_info">>, <<"LogWarn", "log_warn">>,
      <<"LogError", "log_error">>, <<"Publish", "publish">>,
      <<"BloomFilterInsert", "bf_insert">>,
      <<"BloomFilterContains", "bf_contains">>,
      <<"BloomFilterContainsWithInsert", "bf_icontains">>,
      <<"Fake", "fake">>, <<"Min", "min">>, <<"Max", "max">>,
      <<"Seq", "seq">>, <<"Uniq", "uniq">>, <<"JoinColumns", "join_cols">>,
      <<"SplitInt", "split_int">>, <<"SplitStr", "split_str">>})

\* Commands and lines of input.
GenInput ==
  Pairs({
      <<"Close", "close_file">>, <<"RunCmd", "run_cmd">>,
      <<"RunCmd2", "run_cmd2">>, <<"Exit", "exit">>,
      <<"ReadErr", "read_err">>, <<"NextLine", "next_line">>,
      <<"ReadErrStdin", "read_err_stdin">>,
      <<"NextLineStdin", "next_line_stdin">>,
      <<"NextLineStdinFused", "next_line_stdin_fused">>,
      <<"NextFile", "next_file">>,
      <<"UpdateUsedFields", "update_used_fields">>,
      <<"SetFI", "set_fi_entry">>})

\* The awk variables.
GenVars ==
  Pairs({
      <<"LoadVarStr", "load_var_str">>, <<"StoreVarStr", "store_var_str">>,
      <<"LoadVarInt", "load_var_int">>, <<"StoreVarInt", "store_var_int">>,
      <<"LoadVarIntMap", "load_var_intmap">>,
      <<"StoreVarIntMap", "store_var_intmap">>,
      <<"LoadVarStrMap", "load_var_strmap">>,
      <<"StoreVarStrMap", "store_var_strmap">>,
      <<"LoadVarStrStrMap", "load_var_strstrmap">>,
      <<"StoreVarStrStrMap", "store_var_strstrmap">>})

Called == GenArith @@ GenEnv @@ GenParse @@ GenData @@ GenArrays @@ GenText
            @@ GenStores @@ GenInput @@ GenVars

(***************************************************************************)
(* register!: the declared signatures, and the functions declared ReadOnly *)
(***************************************************************************)
\* Conversions, strings, columns, the environment, codecs, text.
RegisterCore ==
  Sig(<<"float_ty">>, "str_ty", {"float_to_str"}) @@
  Sig(<<"int_ty">>, "int_ty", {"snowflake"}) @@
  Sig(<<"int_ty">>, "str_ty", {"int_to_str", "mkpass", "format_bytes"}) @@
  Sig(<<"map_ty">>, "none", {"ref_map"}) @@
  Sig(<<"rt_ty">>, "float_ty", {"rand_float"}) @@
  Sig(<<"rt_ty">>, "int_ty", {"reseed_rng", "read_err_stdin", "systime"}) @@
  Sig(<<"rt_ty">>, "none", {
      "next_line_stdin_fused", "next_file", "update_used_fields"}) @@
  Sig(<<"rt_ty">>, "str_ty", {
      "next_line_stdin", "ulid", "tsid", "whoami", "version", "os",
      "os_family", "arch", "pwd", "user_home", "local_ip"}) @@
  Sig(<<"str_ref_ty">>, "float_ty", {"str_to_float", "eval", "strtonum"}) @@
  Sig(<<"str_ref_ty">>, "int_ty", {
      "str_to_int", "hex_str_to_int", "str_len", "len_str", "run_cmd",
      "duration", "mkbool", "to_bytes"}) @@
  Sig(<<"str_ref_ty">>, "map_ty", {"chars", "run_cmd2", "words", "lines"}) @@
  Sig(<<"str_ref_ty">>, "none", {"ref_str", "drop_str"}) @@
  Sig(<<"str_ref_ty">>, "str_ty", {
      "escape_csv", "escape_tsv", "to_upper_ascii", "to_lower_ascii",
      "uuid", "fend", "capitalize", "uncapitalize", "camel_case",
      "kebab_case", "snake_case", "title_case", "figlet", "mask", "quote",
      "double_quote"}) @@
  Sig(<<"rt_ty", "int_ty">>, "int_ty", {"seed_rng"}) @@
  Sig(<<"rt_ty", "int_ty">>, "none", {"exit"}) @@
  Sig(<<"rt_ty", "int_ty">>, "str_ty", {"get_col"}) @@
  Sig(<<"rt_ty", "str_ref_ty">>, "none", {"close_file"}) @@
  Sig(<<"str_ref_ty", "int_ty">>, "int_ty", {"mktime"}) @@
  Sig(<<"str_ref_ty", "int_ty">>, "none", {"drop_str_slow"}) @@
  Sig(<<"str_ref_ty", "int_ty">>, "str_ty", {"char_at", "repeat"}) @@
  Sig(<<"str_ref_ty", "map_ty">>, "float_ty", {
      "eval_int_context", "eval_float_context", "eval_context"}) @@
  Sig(<<"str_ref_ty", "rt_ty">>, "int_ty", {"match_const_pat"}) @@
  Sig(<<"str_ref_ty", "str_ref_ty">>, "int_ty", {
      "substr_index", "substr_last_index", "starts_with", "ends_with",
      "text_contains", "strcmp"}) @@
  Sig(<<"str_ref_ty", "str_ref_ty">>, "str_ty", {
      "concat", "last_part", "getenv", "trim", "default_if_empty",
      "append_if_missing", "prepend_if_missing", "remove_if_begin",
      "remove_if_end", "encode", "decode", "escape", "digest"}) @@
  Sig(<<"rt_ty", "int_ty", "int_ty">>, "none", {"set_fi_entry"}) @@
  Sig(<<"rt_ty", "int_ty", "int_ty">>, "str_ty", {"join_csv", "join_tsv"}) @@
  Sig(<<"rt_ty", "int_ty", "str_ref_ty">>, "none", {"set_col"}) @@
  Sig(<<"rt_ty", "pa_args_ty", "int_ty">>, "none", {"print_all_stdout"}) @@
  Sig(<<"rt_ty", "str_ref_ty", "int_ty">>, "int_ty", {"read_err"}) @@
  Sig(<<"rt_ty", "str_ref_ty", "int_ty">>, "str_ty", {
      "next_line", "strftime"}) @@
  Sig(<<"rt_ty", "str_ref_ty", "rt_ty">>, "int_ty", {"match_const_pat_loc"}) @@
  Sig(<<"rt_ty", "str_ref_ty", "str_ref_ty">>, "int_ty", {
      "match_pat", "match_pat_loc"}) @@
  Sig(<<"str_ref_ty", "int_ty", "int_ty">>, "str_ty", {"substr"}) @@
  Sig(<<"str_ref_ty", "int_ty", "str_ref_ty">>, "str_ty", {
      "truncate", "pad_left", "pad_right", "pad_both"}) @@
  Sig(<<"str_ref_ty", "rt_ty", "int_ty">>, "int_ty", {"starts_with_const"}) @@
  Sig(<<"str_ref_ty", "str_ref_ty", "map_ty">>, "str_ty", {"jwt"}) @@
  Sig(<<"str_ref_ty", "str_ref_ty", "str_ref_ty">>, "str_ty", {"hmac"}) @@
  Sig(<<"rt_ty", "int_ty", "int_ty", "str_ref_ty">>, "str_ty", {
      "join_cols"}) @@
  Sig(<<"rt_ty", "str_ref_ty", "map_ty", "str_ref_ty">>, "int_ty", {
      "split_int", "split_str"}) @@
  Sig(<<"rt_ty", "str_ref_ty", "str_ref_ty", "str_ref_ty">>, "int_ty", {
      "subst_first", "subst_all"}) @@
  Sig(<<"rt_ty", "pa_args_ty", "int_ty", "str_ref_ty", "int_ty">>, "none", {
      "print_all_file"}) @@
  Sig(<<"rt_ty", "str_ref_ty", "fmt_args_ty", "fmt_tys_ty", "int_ty">>,
      "none", {
      "printf_impl_stdout"}) @@
  Sig(<<"rt_ty", "str_ref_ty", "fmt_args_ty", "fmt_tys_ty", "int_ty">>,
      "str_ty", {
      "sprintf_impl"}) @@
  Sig(<<"rt_ty", "str_ref_ty", "str_ref_ty", "str_ref_ty", "str_ref_ty">>,
      "str_ty", {
      "gen_subst"}) @@
  Sig(<<"rt_ty", "str_ref_ty", "fmt_args_ty", "fmt_tys_ty", "int_ty",
        "str_ref_ty", "int_ty">>, "none", {
      "printf_impl_file"})

\* Stores, documents, arrays, parsers, commands, input.
RegisterData ==
  Sig(<<>>, "int_ty", {
      "is_array_true", "is_array_false", "is_int_true", "is_int_false",
      "is_num_true", "is_num_false"}) @@
  Sig(<<>>, "none", {"dump_null"}) @@
  Sig(<<>>, "str_ty", {
      "null_to_json", "type_of_array", "type_of_number", "type_of_string",
      "type_of_unassigned"}) @@
  Sig(<<"float_ty">>, "none", {"dump_float"}) @@
  Sig(<<"float_ty">>, "str_ty", {"float_to_json"}) @@
  Sig(<<"int_ty">>, "none", {"dump_int"}) @@
  Sig(<<"int_ty">>, "str_ty", {"int_to_json"}) @@
  Sig(<<"map_ty">>, "float_ty", {
      "map_int_float_max", "map_int_float_min", "map_int_float_sum",
      "map_int_float_mean"}) @@
  Sig(<<"map_ty">>, "int_ty", {
      "map_int_int_max", "map_int_int_min", "map_int_int_sum",
      "map_int_int_mean"}) @@
  Sig(<<"map_ty">>, "none", {
      "dump_map_int_int", "dump_map_int_float", "dump_map_int_str",
      "dump_map_str_int", "dump_map_str_float", "dump_map_str_str"}) @@
  Sig(<<"map_ty">>, "str_ty", {
      "map_int_int_to_json", "map_int_float_to_json", "map_int_str_to_json",
      "map_str_int_to_json", "map_str_float_to_json", "map_str_str_to_json",
      "map_int_int_to_csv", "map_int_float_to_csv", "map_int_str_to_csv"}) @@
  Sig(<<"str_ref_ty">>, "int_ty", {"is_str_int", "is_str_num"}) @@
  Sig(<<"str_ref_ty">>, "map_ty", {
      "url", "record", "message", "semver", "path", "data_url", "datetime",
      "shlex", "tuple", "flags", "parse_array", "hex2rgb", "variant",
      "func", "read_config", "from_json", "from_csv"}) @@
  Sig(<<"str_ref_ty">>, "none", {"kv_clear", "dump_str"}) @@
  Sig(<<"str_ref_ty">>, "str_ty", {"read_all", "str_to_json"}) @@
  Sig(<<"map_ty", "map_ty">>, "int_ty", {
      "map_int_int_asort", "map_int_float_asort", "map_int_str_asort"}) @@
  Sig(<<"map_ty", "str_ref_ty">>, "map_ty", {"uniq"}) @@
  Sig(<<"map_ty", "str_ref_ty">>, "str_ty", {
      "map_int_int_join", "map_int_float_join", "map_int_str_join"}) @@
  Sig(<<"rt_ty", "str_ref_ty">>, "none", {
      "log_debug", "log_info", "log_warn", "log_error"}) @@
  Sig(<<"str_ref_ty", "map_ty">>, "map_ty", {"http_get"}) @@
  Sig(<<"str_ref_ty", "str_ref_ty">>, "int_ty", {
      "sqlite_execute", "libsql_execute", "mysql_execute", "pg_execute",
      "bf_contains", "bf_icontains", "is_format"}) @@
  Sig(<<"str_ref_ty", "str_ref_ty">>, "map_ty", {
      "dejwt", "parse", "rparse", "sqlite_query", "libsql_query",
      "mysql_query", "pg_query", "json_query", "html_query", "xml_query"}) @@
  Sig(<<"str_ref_ty", "str_ref_ty">>, "none", {
      "kv_delete", "write_all", "publish", "bf_insert"}) @@
  Sig(<<"str_ref_ty", "str_ref_ty">>, "str_ty", {
      "s3_get", "kv_get", "fake", "json_value", "html_value", "xml_value"}) @@
  Sig(<<"float_ty", "float_ty", "float_ty">>, "map_ty", {"seq"}) @@
  Sig(<<"int_ty", "int_ty", "int_ty">>, "str_ty", {"rgb2hex"}) @@
  Sig(<<"str_ref_ty", "map_ty", "str_ref_ty">>, "map_ty", {"http_post"}) @@
  Sig(<<"str_ref_ty", "str_ref_ty", "str_ref_ty">>, "map_ty", {"pairs"}) @@
  Sig(<<"str_ref_ty", "str_ref_ty", "str_ref_ty">>, "none", {"kv_put"}) @@
  Sig(<<"str_ref_ty", "str_ref_ty", "str_ref_ty">>, "str_ty", {
      "encrypt", "decrypt", "s3_put", "min", "max"}) @@
  Sig(<<"str_ref_ty", "str_ref_ty", "str_ref_ty", "str_ref_ty">>, "none", {
      "send_mail"}) @@
  Sig(<<"str_ref_ty", "str_ref_ty", "str_ref_ty", "str_ref_ty", "str_ref_ty">>,
      "none", {
      "smtp_send"})

\* Mathematics, variables and comparisons.
RegisterVars ==
  Sig(<<"float_ty">>, "float_ty", {
      "_frawk_atan", "_frawk_cos", "_frawk_sin", "_frawk_log",
      "_frawk_log2", "_frawk_log10", "_frawk_exp", "_frawk_abs",
      "_frawk_ceil", "_frawk_floor", "_frawk_round"}) @@
  Sig(<<"float_ty", "float_ty">>, "float_ty", {
      "_frawk_fprem", "_frawk_pow", "_frawk_atan2"}) @@
  Sig(<<"iter_int_ty", "int_ty">>, "none", {"drop_iter_int"}) @@
  Sig(<<"iter_str_ty", "int_ty">>, "none", {"drop_iter_str"}) @@
  Sig(<<"rt_ty", "int_ty">>, "int_ty", {"load_var_int"}) @@
  Sig(<<"rt_ty", "int_ty">>, "map_ty", {
      "load_var_intmap", "load_var_strmap"}) @@
  Sig(<<"rt_ty", "int_ty">>, "str_ty", {"load_var_str"}) @@
  Sig(<<"rt_ty", "str_ref_ty">>, "map_ty", {"load_var_strstrmap"}) @@
  Sig(<<"str_ref_ty", "str_ref_ty">>, "int_ty", {
      "str_lt", "str_gt", "str_lte", "str_gte", "str_eq"}) @@
  Sig(<<"rt_ty", "int_ty", "int_ty">>, "none", {"store_var_int"}) @@
  Sig(<<"rt_ty", "int_ty", "map_ty">>, "none", {
      "store_var_intmap", "store_var_strmap"}) @@
  Sig(<<"rt_ty", "int_ty", "str_ref_ty">>, "none", {"store_var_str"}) @@
  Sig(<<"rt_ty", "str_ref_ty", "map_ty">>, "none", {"store_var_strstrmap"})

Registered == RegisterCore @@ RegisterData @@ RegisterVars

\* The functions declared to LLVM as reading only: a call whose result is not
\* used, or that repeats another, may be left out.
\* Mutant: running a command reads only.
X_ReadOnly == {"run_cmd", "str_len", "len_str"}

ReadOnly ==
  {"int_to_str", "float_to_str", "str_to_int", "hex_str_to_int",
   "str_to_float", "str_len", "len_str", "match_pat", "match_const_pat",
   "match_pat_loc", "match_const_pat_loc", "substr_index",
   "substr_last_index", "char_at", "chars", "last_part", "get_col",
   "join_csv", "join_tsv", "join_cols", "to_upper_ascii", "to_lower_ascii",
   "getenv", "mktime", "duration", "strftime", "mkbool", "mkpass", "fend",
   "eval_int_context", "eval_float_context", "eval_context", "eval", "trim",
   "strtonum", "to_bytes", "starts_with", "ends_with", "text_contains",
   "capitalize", "uncapitalize", "camel_case", "kebab_case", "snake_case",
   "title_case", "figlet", "mask", "repeat", "default_if_empty",
   "append_if_missing", "prepend_if_missing", "remove_if_begin",
   "remove_if_end", "quote", "double_quote", "words", "lines", "truncate",
   "pad_left", "pad_right", "pad_both", "strcmp", "encode", "decode",
   "escape", "digest", "hmac", "jwt", "dejwt", "encrypt", "decrypt", "url",
   "parse", "rparse", "record", "message", "pairs", "semver", "path",
   "data_url", "datetime", "shlex", "tuple", "flags", "parse_array",
   "hex2rgb", "rgb2hex", "variant", "func", "sqlite_query",
   "sqlite_execute", "libsql_query", "libsql_execute", "mysql_query",
   "mysql_execute", "pg_query", "pg_execute", "http_get", "http_post",
   "s3_get", "s3_put", "kv_get", "read_all", "read_config", "bf_contains",
   "bf_icontains", "fake", "from_json", "map_int_int_to_json",
   "map_int_float_to_json", "map_int_str_to_json", "map_str_int_to_json",
   "map_str_float_to_json", "map_str_str_to_json", "str_to_json",
   "int_to_json", "float_to_json", "null_to_json", "json_value",
   "json_query", "html_value", "html_query", "xml_value", "xml_query",
   "map_int_int_join", "map_int_float_join", "map_int_str_join",
   "map_int_int_max", "map_int_float_max", "map_int_int_min",
   "map_int_float_min", "map_int_int_sum", "map_int_float_sum",
   "map_int_int_mean", "map_int_float_mean", "from_csv",
   "map_int_int_to_csv", "map_int_float_to_csv", "map_int_str_to_csv",
   "min", "max", "seq", "uniq", "type_of_array", "type_of_number",
   "type_of_string", "type_of_unassigned", "is_array_true",
   "is_array_false", "is_int_true", "is_int_false", "is_str_int",
   "is_num_true", "is_num_false", "is_str_num", "is_format", "_frawk_fprem",
   "_frawk_pow", "_frawk_atan", "_frawk_cos", "_frawk_sin", "_frawk_log",
   "_frawk_log2", "_frawk_log10", "_frawk_exp", "_frawk_abs", "_frawk_ceil",
   "_frawk_floor", "_frawk_round", "_frawk_atan2", "load_var_int",
   "load_var_intmap", "load_var_strmap", "load_var_strstrmap", "str_lt",
   "str_gt", "str_lte", "str_gte", "str_eq"}

\* The same of the functions on maps, each declared for the six types of maps.
ReadOnlyMaps == {"len", "lookup", "contains"}

(***************************************************************************)
(* The functions, "ptr" for a pointer, "U128" for a string by value        *)
(***************************************************************************)
\* Commands, random numbers and lines of input.
FnInput ==
  Sig(<<"ptr">>, "Int", {"run_cmd", "reseed_rng", "read_err_stdin"}) @@
  Sig(<<"ptr">>, "U128", {"next_line_stdin"}) @@
  Sig(<<"ptr">>, "Float", {"rand_float"}) @@
  Sig(<<"ptr">>, "none", {
      "next_line_stdin_fused", "next_file", "update_used_fields"}) @@
  Sig(<<"ptr">>, "ptr", {"run_cmd2"}) @@
  Sig(<<"ptr", "Int">>, "Int", {"seed_rng"}) @@
  Sig(<<"ptr", "Int">>, "none", {"exit"}) @@
  Sig(<<"ptr", "Int", "Int">>, "none", {"set_fi_entry"}) @@
  Sig(<<"ptr", "ptr", "Int">>, "Int", {"read_err"}) @@
  Sig(<<"ptr", "ptr", "Int">>, "U128", {"next_line"})

\* Split, columns and the environment.
FnEnv ==
  Sig(<<>>, "Int", {"systime"}) @@
  Sig(<<>>, "U128", {
      "local_ip", "whoami", "version", "os", "os_family", "arch", "pwd",
      "user_home", "ulid", "tsid"}) @@
  Sig(<<"Int">>, "Int", {"snowflake"}) @@
  Sig(<<"ptr">>, "U128", {"uuid"}) @@
  Sig(<<"ptr", "Int">>, "U128", {"get_col"}) @@
  Sig(<<"ptr", "ptr">>, "U128", {"getenv"}) @@
  Sig(<<"ptr", "Int", "Int">>, "U128", {"join_csv"}) @@
  Sig(<<"ptr", "ptr", "ptr", "ptr">>, "Int", {"split_str", "split_int"})

\* Codecs and text.
FnCodecs ==
  Sig(<<"Int">>, "U128", {"format_bytes"}) @@
  Sig(<<"ptr">>, "Float", {"strtonum"}) @@
  Sig(<<"ptr">>, "U128", {"capitalize"}) @@
  Sig(<<"ptr", "ptr">>, "U128", {
      "encode", "decode", "escape", "digest", "trim"}) @@
  Sig(<<"ptr", "ptr">>, "ptr", {"dejwt"}) @@
  Sig(<<"ptr", "ptr", "Int">>, "U128", {"strftime"}) @@
  Sig(<<"ptr", "ptr", "ptr">>, "U128", {
      "hmac", "jwt", "encrypt", "decrypt"})

\* Text.
FnText ==
  Sig(<<"ptr">>, "Int", {"to_bytes"}) @@
  Sig(<<"ptr">>, "U128", {
      "uncapitalize", "camel_case", "kebab_case", "snake_case",
      "title_case", "figlet", "mask"}) @@
  Sig(<<"ptr", "Int">>, "U128", {"repeat"}) @@
  Sig(<<"ptr", "ptr">>, "Int", {
      "starts_with", "ends_with", "text_contains", "strcmp"}) @@
  Sig(<<"ptr", "ptr">>, "U128", {
      "default_if_empty", "append_if_missing", "prepend_if_missing",
      "remove_if_begin", "remove_if_end"}) @@
  Sig(<<"ptr", "Int", "ptr">>, "U128", {
      "pad_left", "pad_right", "pad_both"})

\* Text, stores and filters.
FnStores ==
  Sig(<<"ptr">>, "U128", {"quote", "double_quote", "read_all"}) @@
  Sig(<<"ptr">>, "none", {"kv_clear"}) @@
  Sig(<<"ptr">>, "ptr", {"words", "lines", "read_config"}) @@
  Sig(<<"ptr", "ptr">>, "Int", {"bf_contains", "bf_icontains"}) @@
  Sig(<<"ptr", "ptr">>, "U128", {"kv_get"}) @@
  Sig(<<"ptr", "ptr">>, "none", {
      "kv_delete", "write_all", "log_debug", "log_info", "log_warn",
      "log_error", "publish", "bf_insert"}) @@
  Sig(<<"ptr", "ptr">>, "ptr", {"parse", "rparse"}) @@
  Sig(<<"ptr", "Int", "ptr">>, "U128", {"truncate"}) @@
  Sig(<<"ptr", "ptr", "ptr">>, "none", {"kv_put"})

\* Time, numbers and evaluation.
FnMisc ==
  Sig(<<"Int">>, "U128", {"mkpass"}) @@
  Sig(<<"ptr">>, "Float", {"eval"}) @@
  Sig(<<"ptr">>, "Int", {"duration", "mkbool"}) @@
  Sig(<<"ptr">>, "U128", {"to_upper_ascii", "to_lower_ascii", "fend"}) @@
  Sig(<<"ptr", "Int">>, "Int", {"mktime"}) @@
  Sig(<<"ptr", "ptr">>, "Float", {
      "eval_int_context", "eval_float_context", "eval_context"}) @@
  Sig(<<"ptr", "ptr">>, "U128", {"fake"}) @@
  Sig(<<"ptr", "ptr">>, "ptr", {"uniq"}) @@
  Sig(<<"Float", "Float", "Float">>, "ptr", {"seq"}) @@
  Sig(<<"ptr", "Int", "Int">>, "U128", {"join_tsv"}) @@
  Sig(<<"ptr", "ptr", "ptr">>, "U128", {"min", "max"}) @@
  Sig(<<"ptr", "Int", "Int", "ptr">>, "U128", {"join_cols"})

\* Parsers and tests of types.
FnParse ==
  Sig(<<>>, "Int", {
      "is_array_true", "is_array_false", "is_int_true", "is_int_false",
      "is_num_true", "is_num_false"}) @@
  Sig(<<>>, "U128", {
      "type_of_array", "type_of_number", "type_of_string",
      "type_of_unassigned"}) @@
  Sig(<<"ptr">>, "Int", {"is_str_int", "is_str_num"}) @@
  Sig(<<"ptr">>, "ptr", {
      "url", "record", "message", "semver", "path", "data_url", "datetime",
      "shlex", "tuple", "flags", "parse_array", "hex2rgb"}) @@
  Sig(<<"ptr", "ptr">>, "Int", {"is_format"}) @@
  Sig(<<"ptr", "ptr", "ptr">>, "ptr", {"pairs"})

\* Databases and documents.
FnData ==
  Sig(<<>>, "U128", {"null_to_json"}) @@
  Sig(<<"Float">>, "U128", {"float_to_json"}) @@
  Sig(<<"Int">>, "U128", {"int_to_json"}) @@
  Sig(<<"ptr">>, "U128", {
      "map_int_int_to_json", "map_int_float_to_json", "map_int_str_to_json",
      "map_str_int_to_json", "map_str_float_to_json", "map_str_str_to_json",
      "str_to_json"}) @@
  Sig(<<"ptr">>, "ptr", {"variant", "func", "from_json"}) @@
  Sig(<<"ptr", "ptr">>, "Int", {
      "sqlite_execute", "libsql_execute", "mysql_execute", "pg_execute"}) @@
  Sig(<<"ptr", "ptr">>, "U128", {"json_value"}) @@
  Sig(<<"ptr", "ptr">>, "ptr", {
      "sqlite_query", "libsql_query", "mysql_query", "pg_query"}) @@
  Sig(<<"Int", "Int", "Int">>, "U128", {"rgb2hex"})

\* Documents, dumps and sorting.
FnDumps ==
  Sig(<<>>, "none", {"dump_null"}) @@
  Sig(<<"Float">>, "none", {"dump_float"}) @@
  Sig(<<"Int">>, "none", {"dump_int"}) @@
  Sig(<<"ptr">>, "none", {
      "dump_map_int_int", "dump_map_int_float", "dump_map_int_str",
      "dump_map_str_int", "dump_map_str_float", "dump_map_str_str",
      "dump_str"}) @@
  Sig(<<"ptr", "ptr">>, "Int", {
      "map_int_int_asort", "map_int_float_asort", "map_int_str_asort"}) @@
  Sig(<<"ptr", "ptr">>, "U128", {
      "html_value", "xml_value", "map_int_int_join", "map_int_float_join",
      "map_int_str_join"}) @@
  Sig(<<"ptr", "ptr">>, "ptr", {"json_query", "html_query", "xml_query"})

\* Arrays and the network.
FnArrays ==
  Sig(<<"ptr">>, "Float", {
      "map_int_float_max", "map_int_float_min", "map_int_float_sum",
      "map_int_float_mean"}) @@
  Sig(<<"ptr">>, "Int", {
      "map_int_int_max", "map_int_int_min", "map_int_int_sum",
      "map_int_int_mean"}) @@
  Sig(<<"ptr">>, "U128", {
      "map_int_int_to_csv", "map_int_float_to_csv", "map_int_str_to_csv"}) @@
  Sig(<<"ptr">>, "ptr", {"from_csv"}) @@
  Sig(<<"ptr", "ptr">>, "ptr", {"http_get"}) @@
  Sig(<<"ptr", "ptr", "ptr">>, "ptr", {"http_post"}) @@
  Sig(<<"ptr", "ptr", "ptr", "ptr">>, "none", {"send_mail"}) @@
  Sig(<<"ptr", "ptr", "ptr", "ptr", "ptr">>, "none", {"smtp_send"})

\* Storage, columns and patterns.
FnStrings ==
  Sig(<<"ptr">>, "Int", {"str_len", "len_str"}) @@
  Sig(<<"ptr", "ptr">>, "Int", {
      "match_const_pat", "substr_index", "substr_last_index"}) @@
  Sig(<<"ptr", "ptr">>, "U128", {"s3_get", "concat"}) @@
  Sig(<<"ptr", "Int", "ptr">>, "none", {"set_col"}) @@
  Sig(<<"ptr", "ptr", "Int">>, "Int", {"starts_with_const"}) @@
  Sig(<<"ptr", "ptr", "ptr">>, "Int", {
      "match_pat", "match_pat_loc", "match_const_pat_loc"}) @@
  Sig(<<"ptr", "ptr", "ptr">>, "U128", {"s3_put"})

\* Substitution and conversion.
FnSubst ==
  Sig(<<"Float">>, "U128", {"float_to_str"}) @@
  Sig(<<"Int">>, "U128", {"int_to_str"}) @@
  Sig(<<"ptr">>, "U128", {"escape_csv", "escape_tsv"}) @@
  Sig(<<"ptr">>, "none", {"ref_str", "drop_str", "ref_map"}) @@
  Sig(<<"ptr">>, "ptr", {"chars"}) @@
  Sig(<<"ptr", "Int">>, "U128", {"char_at"}) @@
  Sig(<<"ptr", "ptr">>, "U128", {"last_part"}) @@
  Sig(<<"ptr", "Int">>, "none", {"drop_str_slow"}) @@
  Sig(<<"ptr", "Int", "Int">>, "U128", {"substr"}) @@
  Sig(<<"ptr", "ptr", "ptr", "ptr">>, "Int", {"subst_first", "subst_all"}) @@
  Sig(<<"ptr", "ptr", "ptr", "ptr", "ptr">>, "U128", {"gen_subst"})

\* Conversions and the awk variables.
FnVars ==
  Sig(<<"ptr">>, "Float", {"str_to_float"}) @@
  Sig(<<"ptr">>, "Int", {"str_to_int", "hex_str_to_int"}) @@
  Sig(<<"ptr", "Int">>, "Int", {"load_var_int"}) @@
  Sig(<<"ptr", "Int">>, "U128", {"load_var_str"}) @@
  Sig(<<"ptr", "Int">>, "ptr", {
      "load_var_intmap", "load_var_strmap", "load_var_strstrmap"}) @@
  Sig(<<"ptr", "Int", "Int">>, "none", {"store_var_int"}) @@
  Sig(<<"ptr", "Int", "ptr">>, "none", {
      "store_var_str", "store_var_intmap", "store_var_strmap",
      "store_var_strstrmap"})

\* The comparisons of strings, one macro.
FnCompare == Sig(<<"ptr", "ptr">>, "Int",
                 {"str_lt", "str_gt", "str_lte", "str_gte", "str_eq"})

\* Output, formats, and what compiled code calls to let go of a value.
FnOutput ==
  Sig(<<"ptr", "Int">>, "none", {"drop_iter_int", "drop_iter_str"}) @@
  Sig(<<"ptr", "ptr", "Int">>, "none", {"print_all_stdout"}) @@
  Sig(<<"ptr", "ptr", "Int", "ptr", "Int">>, "none", {"print_all_file"}) @@
  Sig(<<"ptr", "ptr", "ptr", "ptr", "Int", "ptr", "Int">>, "none",
      {"printf_impl_file"}) @@
  Sig(<<"ptr", "ptr", "ptr", "ptr", "Int">>, "U128", {"sprintf_impl"}) @@
  Sig(<<"ptr", "ptr", "ptr", "ptr", "Int">>, "none", {"printf_impl_stdout"}) @@
  Sig(<<"ptr", "ptr">>, "none", {"close_file"})

\* Functions on floats.
FnFloats ==
  Sig(<<"Float">>, "Float", {
      "_frawk_cos", "_frawk_sin", "_frawk_log", "_frawk_log2", "_frawk_log10",
      "_frawk_exp", "_frawk_abs", "_frawk_ceil", "_frawk_floor",
      "_frawk_round", "_frawk_atan"}) @@
  Sig(<<"Float", "Float">>, "Float",
      {"_frawk_atan2", "_frawk_pow", "_frawk_fprem"})

Externs == FnCompare @@ FnOutput @@ FnFloats @@ FnInput @@ FnEnv @@ FnCodecs @@ FnText @@ FnStores
              @@ FnMisc @@ FnParse @@ FnData @@ FnDumps @@ FnArrays @@ FnStrings @@
              FnSubst @@ FnVars

\* The kernel of a function, where it has not the same name.
OtherKernel ==
  Pairs({
      <<"str_lt", "LTStr">>, <<"str_gt", "GTStr">>, <<"str_lte", "LTEStr">>,
      <<"str_gte", "GTEStr">>, <<"str_eq", "EQStr">>, <<"exit", "Exit">>,
      <<"run_cmd", "run_command">>, <<"run_cmd2", "run_command2">>,
      <<"rand_float", "gen_range">>, <<"seed_rng", "reseed">>,
      <<"reseed_rng", "reseed_random">>, <<"read_err", "ReadErr">>,
      <<"read_err_stdin", "ReadErrStdin">>,
      <<"next_line_stdin_fused", "NextLineStdinFused">>,
      <<"next_file", "NextFile">>, <<"next_line_stdin", "NextLineStdin">>,
      <<"next_line", "NextLine">>,
      <<"update_used_fields", "UpdateUsedFields">>,
      <<"set_fi_entry", "SetFI">>,
      <<"split_str", "split_regex_strmap_by_FS">>,
      <<"split_int", "split_regex_intmap_by_FS">>,
      <<"get_col", "GetColumn">>, <<"join_csv", "JoinCSV">>,
      <<"whoami", "username">>, <<"version", "Version">>,
      <<"systime", "Systime">>, <<"strftime", "strftime_of_procinfo">>,
      <<"text_contains", "contains">>, <<"join_tsv", "JoinTSV">>,
      <<"join_cols", "JoinColumns">>, <<"mkpass", "generate_password">>,
      <<"type_of_array", "TypeOfArray">>,
      <<"type_of_number", "TypeOfNumber">>,
      <<"type_of_string", "TypeOfString">>,
      <<"type_of_unassigned", "TypeOfUnassigned">>,
      <<"is_array_true", "IsArrayTrue">>,
      <<"is_array_false", "IsArrayFalse">>, <<"is_int_true", "IsIntTrue">>,
      <<"is_int_false", "IsIntFalse">>, <<"is_num_true", "IsNumTrue">>,
      <<"is_num_false", "IsNumFalse">>, <<"int_to_json", "IntToJson">>,
      <<"float_to_json", "FloatToJson">>, <<"null_to_json", "NullToJson">>,
      <<"dump_map_int_int", "DumpMapIntInt">>,
      <<"dump_map_int_float", "DumpMapIntFloat">>,
      <<"dump_map_int_str", "DumpMapIntStr">>,
      <<"dump_map_str_int", "DumpMapStrInt">>,
      <<"dump_map_str_float", "DumpMapStrFloat">>,
      <<"dump_map_str_str", "DumpMapStrStr">>, <<"dump_str", "DumpStr">>,
      <<"dump_int", "DumpInt">>, <<"dump_float", "DumpFloat">>,
      <<"dump_null", "DumpNull">>, <<"s3_get", "get_object">>,
      <<"s3_put", "put_object">>, <<"str_len", "Strlen">>,
      <<"len_str", "LenStr">>, <<"starts_with_const", "StartsWithConst">>,
      <<"concat", "Concat">>, <<"match_pat", "is_match_regex">>,
      <<"match_const_pat", "regex_const_match">>,
      <<"match_pat_loc", "match_regex">>,
      <<"match_const_pat_loc", "match_const_regex">>,
      <<"substr_index", "index_substr">>,
      <<"substr_last_index", "last_index_substr">>,
      <<"subst_first", "Sub">>, <<"subst_all", "GSub">>,
      <<"gen_subst", "GenSubDynamic">>,
      <<"substr", "sub_str_from_the_end">>, <<"int_to_str", "convert">>,
      <<"float_to_str", "convert">>, <<"str_to_int", "strtoint">>,
      <<"hex_str_to_int", "HexStrToInt">>, <<"str_to_float", "strtonum">>,
      <<"load_var_str", "LoadVarStr">>, <<"store_var_str", "StoreVarStr">>,
      <<"load_var_int", "LoadVarInt">>, <<"store_var_int", "StoreVarInt">>,
      <<"load_var_intmap", "LoadVarIntMap">>,
      <<"store_var_intmap", "StoreVarIntMap">>,
      <<"load_var_strmap", "LoadVarStrMap">>,
      <<"load_var_strstrmap", "LoadVarStrStrMap">>,
      <<"store_var_strmap", "StoreVarStrMap">>,
      <<"store_var_strstrmap", "StoreVarStrStrMap">>,
      <<"close_file", "Close">>})

(***************************************************************************)
(* Maps: one function for each instruction and each type of map            *)
(***************************************************************************)
GenMaps == Pairs({
    <<"Lookup", "lookup">>, <<"Delete", "delete">>, <<"Clear", "clear">>,
    <<"Contains", "contains">>, <<"Len", "len">>, <<"Store", "insert">>,
    <<"IncInt", "inc_int">>, <<"IncFloat", "inc_float">>,
    <<"IterBegin", "iter">>})
IterOps == {"IterHasNext", "IterGetNext"}

\* A type as an argument and as a result of a declared function.
LlvmIn(t) == CASE t = "Int" -> "int_ty" [] t = "Float" -> "float_ty"
               [] t = "Str" -> "str_ref_ty" [] t = "IterInt" -> "iter_int_ty"
               [] t = "IterStr" -> "iter_str_ty" [] OTHER -> "map_ty"
LlvmOut(t) == IF t = "Str" THEN "str_ty" ELSE LlvmIn(t)

RegisteredMap(fn, m) ==
  LET key == LlvmIn(KeyOf(m))
      val == LlvmOut(ValOf(m))
      Fn(in, out) == [in |-> <<"map_ty">> \o in, out |-> out]
  IN  CASE fn = "lookup" -> Fn(<<key>>, val)
        [] fn = "contains" -> Fn(<<key>>, "int_ty")
        [] fn = "insert" -> Fn(<<key, LlvmIn(ValOf(m))>>, "none")
        [] fn = "delete" -> Fn(<<key>>, "none")
        [] fn = "clear" -> Fn(<<>>, "none")
        [] fn = "len" -> Fn(<<>>, "int_ty")
        [] fn = "iter" -> Fn(<<>>, LlvmIn(IterOf(m)))
        [] fn = "inc_int" -> Fn(<<key, "int_ty">>, val)
        [] fn = "inc_float" -> Fn(<<key, "float_ty">>, val)

\* map_impl!: a pointer for the map and for a string that goes in.
MapFunction(fn, m) ==
  LET In(t) == IF t = "Str" THEN "ptr" ELSE t
      Out(t) == IF t = "Str" THEN "U128" ELSE t
      Fn(in, out) == [in |-> <<"ptr">> \o in, out |-> out]
      key == In(KeyOf(m))
  IN  CASE fn = "lookup" -> Fn(<<key>>, Out(ValOf(m)))
        [] fn = "contains" -> Fn(<<key>>, "Int")
        [] fn = "insert" -> Fn(<<key, In(ValOf(m))>>, "none")
        [] fn = "delete" -> Fn(<<key>>, "none")
        [] fn = "clear" -> Fn(<<>>, "none")
        [] fn = "len" -> Fn(<<>>, "Int")
        [] fn = "iter" -> Fn(<<>>, "ptr")
        [] fn = "inc_int" -> Fn(<<key, "Int">>, Out(ValOf(m)))
        [] fn = "inc_float" -> Fn(<<key, "Float">>, Out(ValOf(m)))

(***************************************************************************)
(* The call gen_ll_inst emits                                              *)
(***************************************************************************)
IsMapCall(i) == i.op \in DOMAIN GenMaps
IsCall(i) == IsMapCall(i) \/ (i.op \in DOMAIN Called /\ Called[i.op] # i.op)
Callee(i) == IF IsMapCall(i) THEN GenMaps[i.op] ELSE Called[i.op]
IsReadOnly(i) == Callee(i) \in IF IsMapCall(i) THEN ReadOnlyMaps ELSE ReadOnly

VarLoads == {"LoadVarStr", "LoadVarInt", "LoadVarIntMap", "LoadVarStrMap",
             "LoadVarStrStrMap"}
VarStores == {"StoreVarStr", "StoreVarInt", "StoreVarIntMap", "StoreVarStrMap",
              "StoreVarStrStrMap"}

\* The runtime goes first,
UsesRuntime ==
  {"Rand", "Srand", "ReseedRng", "Match", "IsMatch", "MatchConst", "Sub", "GSub",
   "GenSubDynamic", "SetColumn", "GetColumn", "JoinCSV", "JoinTSV", "Ulid",
   "Tsid", "Whoami", "Version", "Os", "OsFamily", "Arch", "Pwd", "UserHome",
   "LocalIp", "Systime", "Strftime", "LogDebug", "LogInfo", "LogWarn",
   "LogError", "JoinColumns", "SplitInt", "SplitStr", "Close", "Exit", "ReadErr",
   "NextLine", "ReadErrStdin", "NextLineStdin", "NextLineStdinFused",
   "NextFile", "UpdateUsedFields", "SetFI"} \union VarLoads \union VarStores

\* then the number of a variable, then the operands, then what the instruction
\* itself carries: a literal and its length, a regex, whether it is a file.
VarNumber(i) ==
  IF i.op \in VarLoads \union VarStores THEN <<"int_ty">> ELSE <<>>
\* Mutant: the prefix goes without its length.
X_Literal(i) == IF i.op \in {"StartsWithConst", "MatchConst", "IsMatchConst"}
                THEN <<"rt_ty">>
                ELSE IF i.op \in {"ReadErr", "NextLine"} THEN <<"int_ty">>
                ELSE <<>>

Literal(i) == CASE i.op = "StartsWithConst" -> <<"rt_ty", "int_ty">>
                [] i.op \in {"MatchConst", "IsMatchConst"} -> <<"rt_ty">>
                [] i.op \in {"ReadErr", "NextLine"} -> <<"int_ty">>
                [] OTHER -> <<>>

\* Mutant: http_post gets its body before its headers.
X_PassedOrder(i) == InOrder(i)

PassedOrder(i) == IF i.op = "HttpPost" THEN <<2, 4, 3>> ELSE InOrder(i)

CallArgs(i) ==
  LET passed == PassedOrder(i)
  IN  (IF i.op \in UsesRuntime THEN <<"rt_ty">> ELSE <<>>) \o VarNumber(i)
        \o [k \in DOMAIN passed |-> LlvmIn(Operands(i)[passed[k]])]
        \o Literal(i)
CallResult(i) ==
  IF 1 \in Writes(i) THEN LlvmOut(Operands(i)[1]) ELSE "none"

\* What the function called then hands to its kernel, as positions among the
\* operands it is passed.
FnOrder == [substr_index |-> <<2, 1>>, substr_last_index |-> <<2, 1>>,
            escape |-> <<2, 1>>, split_int |-> <<3, 1, 2>>,
            split_str |-> <<3, 1, 2>>]

MapKernel(fn) == CHOOSE op \in DOMAIN GenMaps : GenMaps[op] = fn
KernelOf(i) == CASE IsMapCall(i) -> MapKernel(Callee(i))
                 [] ~IsCall(i) -> i.op
                 [] Callee(i) \in DOMAIN OtherKernel -> OtherKernel[Callee(i)]
                 [] OTHER -> Callee(i)
KernelArgs(i) ==
  LET passed == PassedOrder(i)
  IN  IF IsCall(i) /\ Callee(i) \in DOMAIN FnOrder
      THEN [k \in DOMAIN passed |-> passed[FnOrder[Callee(i)][k]]]
      ELSE passed
=============================================================================
