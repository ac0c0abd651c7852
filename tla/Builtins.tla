------------------------------- MODULE Builtins -------------------------------
(* The functions of frawk (builtins.rs): how many arguments one takes, the types
   it wants them at and the type it returns (type_sig), and the type the
   inference gives its result (step); and the arguments that are filled in where
   a program leaves them out (cfg.rs, call).  FloatFunc1 and FloatFunc2 stand for
   the functions on floats of one and two arguments, IntFunc1 and IntFunc2 for
   those on integers.  *)
EXTENDS Bytecode

(***************************************************************************)
(* Missing arguments                                                       *)
(***************************************************************************)
(* What is added to the n arguments a program gives: strings and integers, a
   variable nobody reads ("unused"), FS, OFS or $0, all strings.  *)
Filled ==
  Each(<<"Str">>, {
      <<"GetEnv", 1>>, <<"Fake", 1>>, <<"LastPart", 1>>, <<"Pairs", 2>>,
      <<"BloomFilterInsert", 1>>, <<"BloomFilterContains", 1>>,
      <<"BloomFilterContainsWithInsert", 1>>, <<"PadLeft", 2>>,
      <<"PadRight", 2>>, <<"PadBoth", 2>>, <<"DateTime", 0>>, <<"Uniq", 1>>,
      <<"Uuid", 0>>, <<"IntMapJoin", 1>>, <<"Trim", 1>>, <<"Truncate", 2>>,
      <<"Min", 2>>, <<"Max", 2>>, <<"Split", 2>>, <<"JoinCols", 2>>,
      <<"Sub", 2>>, <<"GSub", 2>>, <<"GenSub", 3>>}) @@
  Each(<<"Int">>, {
      <<"MkPassword", 0>>, <<"Rgb2Hex", 2>>, <<"SnowFlake", 0>>,
      <<"Substr", 2>>, <<"Strftime", 1>>, <<"Mktime", 1>>}) @@
  Each(<<"unused">>, {
      <<"Eval", 1>>, <<"Asort", 1>>, <<"HttpGet", 1>>, <<"HttpPost", 2>>}) @@
  Each(<<"Int", "Int">>, {<<"Rgb2Hex", 1>>}) @@
  Each(<<"Str", "Str">>, {<<"Pairs", 1>>}) @@
  Each(<<"Str", "Int">>, {<<"Strftime", 0>>}) @@
  Each(<<"Str", "unused">>, {<<"HttpPost", 1>>})

(* The call a program's call becomes.  seq takes its missing arguments in front
   of its last one; join_fields depends on the output format esc; srand() is
   another function.  *)
Complete(f, args, esc) ==
  LET n == Len(args)
      last == SubSeq(args, n, n)
  IN  CASE f = "JoinCols" /\ n = 2 /\ esc # "Identity" ->
             [f |-> IF esc = "CSV" THEN "JoinCSV" ELSE "JoinTSV", args |-> args]
        [] f = "Srand" /\ n = 0 -> [f |-> "ReseedRng", args |-> args]
        [] f = "Seq" /\ n \in {1, 2} ->
             [f |-> f, args |-> SubSeq(args, 1, n - 1)
                                  \o [k \in 1 .. 3 - n |-> "Int"] \o last]
        [] <<f, n>> \in DOMAIN Filled ->
             [f |-> f, args |-> args \o Filled[<<f, n>>]]
        [] OTHER -> [f |-> f, args |-> args]

(***************************************************************************)
(* The signatures that do not depend on the arguments                      *)
(***************************************************************************)
FuncSigs ==
  Sig(<<"Float">>, "Float", {"FloatFunc1"}) @@
  Sig(<<"Float", "Float">>, "Float", {"FloatFunc2"}) @@
  Sig(<<"Int">>, "Int", {"IntFunc1"}) @@
  Sig(<<"Int", "Int">>, "Int", {"IntFunc2"})
\* Operators, conversions, lines of input, the environment, parsers.
SigCore ==
  Sig(<<>>, "Float", {"Rand"}) @@
  Sig(<<>>, "Int", {"ReseedRng"}) @@
  Sig(<<"Int">>, "Int", {"Srand"}) @@
  Sig(<<"Int">>, "Str", {"Column"}) @@
  Sig(<<"Str">>, "Int", {"System", "HexToInt"}) @@
  Sig(<<"Str">>, "MapStrStr", {"System2"}) @@
  Sig(<<"Str">>, "Str", {"Quote", "DoubleQuote"}) @@
  Sig(<<"Float", "Float">>, "Float", {"Pow", "Div"}) @@
  Sig(<<"MapIntStr", "Str">>, "MapIntStr", {"Uniq"}) @@
  Sig(<<"Str", "Str">>, "Int", {
      "SubstrIndex", "SubstrLastIndex", "IsMatch", "StrCmp"}) @@
  Sig(<<"Str", "Str">>, "Str", {
      "Concat", "LastPart", "GetEnv", "DefaultIfEmpty", "AppendIfMissing",
      "PrependIfMissing", "RemoveIfEnd", "RemoveIfBegin"}) @@
  Sig(<<"Float", "Float", "Float">>, "MapIntFloat", {"Seq"}) @@
  Sig(<<"Str", "Str", "Str">>, "Str", {"Min", "Max"})

\* The network, stores, documents, text.
SigText ==
  Sig(<<>>, "Int", {
      "UpdateUsedFields", "NextFile", "ReadLineStdinFused", "ReadErrStdin",
      "Systime"}) @@
  Sig(<<>>, "Str", {
      "NextlineStdin", "Ulid", "Tsid", "Whoami", "Version", "Os",
      "OsFamily", "Arch", "Pwd", "UserHome", "LocalIp"}) @@
  Sig(<<"Int">>, "Int", {"SnowFlake"}) @@
  Sig(<<"Int">>, "Str", {"MkPassword"}) @@
  Sig(<<"Str">>, "Int", {
      "ReadErrCmd", "ReadErr", "Strlen", "Duration", "MkBool"}) @@
  Sig(<<"Str">>, "MapIntInt", {"Hex2Rgb"}) @@
  Sig(<<"Str">>, "MapIntStr", {"Shlex", "Tuple", "ParseArray", "Func"}) @@
  Sig(<<"Str">>, "MapStrInt", {"DateTime", "Flags"}) @@
  Sig(<<"Str">>, "MapStrStr", {
      "Url", "Path", "SemVer", "Record", "Message", "DataUrl", "Variant",
      "FromJson"}) @@
  Sig(<<"Str">>, "Null", {
      "KvClear", "LogDebug", "LogInfo", "LogWarn", "LogError"}) @@
  Sig(<<"Str">>, "Str", {"NextlineCmd", "Nextline", "Uuid", "Fend"}) @@
  Sig(<<"Int", "Str">>, "Int", {"Setcol"}) @@
  Sig(<<"Str", "Int">>, "Int", {"Mktime"}) @@
  Sig(<<"Str", "Int">>, "Str", {"Strftime"}) @@
  Sig(<<"Str", "MapStrStr">>, "MapStrStr", {"HttpGet"}) @@
  Sig(<<"Str", "Str">>, "Int", {
      "SqliteExecute", "LibsqlExecute", "MysqlExecute", "PgExecute"}) @@
  Sig(<<"Str", "Str">>, "MapIntStr", {
      "RegexParse", "SqliteQuery", "LibsqlQuery", "MysqlQuery", "PgQuery",
      "JsonQuery", "HtmlQuery"}) @@
  Sig(<<"Str", "Str">>, "MapStrStr", {"Parse"}) @@
  Sig(<<"Str", "Str">>, "Null", {"KvDelete", "Publish"}) @@
  Sig(<<"Str", "Str">>, "Str", {
      "S3Get", "KvGet", "JsonValue", "HtmlValue", "XmlValue"}) @@
  Sig(<<"Int", "Int", "Int">>, "Str", {"Rgb2Hex"}) @@
  Sig(<<"Str", "Str", "MapStrStr">>, "MapStrStr", {"HttpPost"}) @@
  Sig(<<"Str", "Str", "Str">>, "MapStrStr", {"Pairs"}) @@
  Sig(<<"Str", "Str", "Str">>, "Null", {"KvPut"}) @@
  Sig(<<"Str", "Str", "Str">>, "Str", {"S3Put"}) @@
  Sig(<<"Str", "Str", "Str", "Str">>, "Null", {"SendMail"}) @@
  Sig(<<"Str", "Str", "Str", "Str", "Str">>, "Null", {"SmtpSend"})

\* Codecs, filters, substitution, columns.
SigTail ==
  Sig(<<"Int">>, "Null", {"Exit"}) @@
  Sig(<<"Int">>, "Str", {"FormatBytes"}) @@
  Sig(<<"Str">>, "Float", {"Strtonum"}) @@
  Sig(<<"Str">>, "Int", {"ToBytes"}) @@
  Sig(<<"Str">>, "MapIntStr", {"FromCsv", "Words", "Lines", "Chars"}) @@
  Sig(<<"Str">>, "MapStrStr", {"ReadConfig"}) @@
  Sig(<<"Str">>, "Str", {
      "ReadAll", "Capitalize", "UnCapitalize", "CamelCase", "KebabCase",
      "SnakeCase", "TitleCase", "Figlet", "Mask", "Close", "ToUpper",
      "ToLower", "EscapeCSV", "EscapeTSV"}) @@
  Sig(<<"Int", "Int">>, "Int", {"SetFI"}) @@
  Sig(<<"Int", "Int">>, "Str", {"JoinCSV", "JoinTSV"}) @@
  Sig(<<"Str", "Int">>, "Str", {"Repeat", "CharAt"}) @@
  Sig(<<"Str", "Str">>, "Int", {
      "StartsWith", "EndsWith", "TextContains", "BloomFilterContains",
      "BloomFilterContainsWithInsert", "IsFormat", "Match"}) @@
  Sig(<<"Str", "Str">>, "MapIntStr", {"XmlQuery"}) @@
  Sig(<<"Str", "Str">>, "MapStrStr", {"Dejwt"}) @@
  Sig(<<"Str", "Str">>, "Null", {"WriteAll", "BloomFilterInsert"}) @@
  Sig(<<"Str", "Str">>, "Str", {
      "Trim", "Escape", "Encode", "Decode", "Digest", "Fake"}) @@
  Sig(<<"Int", "Int", "Str">>, "Str", {"JoinCols"}) @@
  Sig(<<"Str", "Int", "Int">>, "Str", {"Substr"}) @@
  Sig(<<"Str", "Int", "Str">>, "Str", {
      "Truncate", "PadLeft", "PadRight", "PadBoth"}) @@
  Sig(<<"Str", "Str", "MapStrStr">>, "Str", {"Jwt"}) @@
  Sig(<<"Str", "Str", "Str">>, "Int", {"Sub", "GSub"}) @@
  Sig(<<"Str", "Str", "Str">>, "Str", {"Hmac", "Encrypt", "Decrypt"}) @@
  Sig(<<"Str", "Str", "Str", "Str">>, "Str", {"GenSub"})

FixedSig == FuncSigs @@ SigCore @@ SigText @@ SigTail

\* The number of arguments.
Arity ==
  Each(0, {
      "UpdateUsedFields", "Rand", "Ulid", "Tsid", "LocalIp", "Systime",
      "ReseedRng", "ReadErrStdin", "NextlineStdin", "NextFile",
      "ReadLineStdinFused", "Whoami", "Version", "Os", "OsFamily", "Arch",
      "Pwd", "UserHome"}) @@
  Each(1, {
      "Exit", "ToUpper", "ToLower", "Clear", "Srand", "System", "System2",
      "HexToInt", "ToInt", "EscapeCSV", "EscapeTSV", "Close", "Length",
      "Strlen", "ReadErr", "ReadErrCmd", "Nextline", "NextlineCmd", "Uuid",
      "SnowFlake", "Fend", "Url", "SemVer", "Path", "DataUrl", "DateTime",
      "Shlex", "Tuple", "Variant", "Flags", "ParseArray", "Func", "ToJson",
      "FromJson", "ToCsv", "FromCsv", "TypeOfVariable", "IsArray", "Column",
      "Not", "Neg", "Pos", "Hex2Rgb", "Record", "Message", "Quote",
      "DoubleQuote", "VarDump", "FormatBytes", "ToBytes", "ReadAll",
      "ReadConfig", "Duration", "Chars", "MkBool", "MkPassword",
      "Capitalize", "UnCapitalize", "Mask", "Strtonum", "CamelCase",
      "KebabCase", "SnakeCase", "TitleCase", "Words", "Lines", "Figlet",
      "KvClear", "IsInt", "IsNum", "LogDebug", "LogInfo", "LogWarn",
      "LogError", "ArrayMax", "ArrayMin", "ArraySum", "ArrayMean",
      "FloatFunc1", "IntFunc1"}) @@
  Each(2, {
      "SetFI", "SubstrIndex", "SubstrLastIndex", "Match", "Setcol", "Plus",
      "Minus", "Mult", "Div", "Pow", "Mod", "Concat", "IsMatch", "LT", "GT",
      "LTE", "GTE", "EQ", "JoinCSV", "JoinTSV", "Delete", "Contains",
      "Eval", "DefaultIfEmpty", "JsonValue", "JsonQuery", "HtmlValue",
      "HtmlQuery", "XmlValue", "XmlQuery", "AppendIfMissing",
      "PrependIfMissing", "RemoveIfEnd", "RemoveIfBegin", "LastPart",
      "GetEnv", "Parse", "RegexParse", "StartsWith", "EndsWith",
      "TextContains", "WriteAll", "Dejwt", "BloomFilterInsert",
      "BloomFilterContains", "BloomFilterContainsWithInsert", "Fake",
      "Strftime", "Mktime", "StrCmp", "CharAt", "Trim", "Repeat", "Uniq",
      "Asort", "HttpGet", "S3Get", "KvGet", "KvDelete", "SqliteQuery",
      "SqliteExecute", "LibsqlQuery", "LibsqlExecute", "MysqlQuery",
      "MysqlExecute", "PgQuery", "PgExecute", "Publish", "IsFormat",
      "Encode", "Decode", "Digest", "Escape", "IntMapJoin", "FloatFunc2",
      "IntFunc2"}) @@
  Each(3, {
      "Pairs", "Rgb2Hex", "Encrypt", "Decrypt", "Min", "Max", "Seq",
      "HttpPost", "S3Put", "KvPut", "PadLeft", "PadRight", "PadBoth",
      "Hmac", "Jwt", "IncMap", "JoinCols", "Substr", "Sub", "GSub", "Split",
      "Truncate"}) @@
  Each(4, {"SendMail", "GenSub"}) @@
  Each(5, {"SmtpSend"})

(***************************************************************************)
(* Signatures that depend on the types of the arguments                    *)
(***************************************************************************)
NoSig == [in |-> <<>>, out |-> "error"]
SigOf(in, out) == [in |-> in, out |-> out]

ArithType(x, y) ==
  IF {x, y} \cap {"Str", "Float"} # {} THEN "Float" ELSE "Int"
CompareType(x, y) == CASE x = "Str" /\ y = "Str" -> "Str"
                       [] {x, y} \subseteq {"Int", "Null"} -> "Int"
                       [] {x, y} \cap {"Str", "Float"} # {} -> "Float"
                       [] OTHER -> "error"

Comparisons == {"LT", "GT", "LTE", "GTE", "EQ"}
Arithmetic == {"Plus", "Minus", "Mod", "Mult"}
Reductions == {"ArrayMax", "ArrayMin", "ArraySum", "ArrayMean"}
ByItsType == [Length |-> "Int", ToJson |-> "Str", VarDump |-> "Null",
              ToCsv |-> "Str", TypeOfVariable |-> "Str", IsArray |-> "Int",
              IsInt |-> "Int", IsNum |-> "Int"]

OperatorSig(f, in) ==
  CASE f \in {"Neg", "Pos"} ->
         LET t == IF in[1] \in {"Str", "Float"} THEN "Float" ELSE "Int"
         IN  SigOf(<<t>>, t)
    [] f = "Not" -> CASE in[1] \in {"Float", "Int"} -> SigOf(<<"Int">>, "Int")
                      [] in[1] = "Str" -> SigOf(<<"Str">>, "Int")
                      [] OTHER -> NoSig
    [] f \in Comparisons ->
         LET t == CompareType(in[1], in[2])
         IN  IF t = "error" THEN NoSig ELSE SigOf(<<t, t>>, "Int")
    [] f \in Arithmetic ->
         LET t == ArithType(in[1], in[2]) IN SigOf(<<t, t>>, t)
    [] f = "ToInt" -> IF in[1] \in Scalars \union {"Null"}
                      THEN SigOf(in, "Int") ELSE NoSig

MapSig(f, in) ==
  LET m == in[1]
  IN  CASE f \in {"Contains", "Delete"} ->
             IF m \in Maps THEN SigOf(<<m, KeyOf(m)>>, "Int") ELSE NoSig
        [] f = "IncMap" ->
             IF m \notin Maps THEN NoSig
             ELSE LET t == ArithType(in[3], ValOf(m))
                  IN  SigOf(<<m, KeyOf(m), t>>, t)
        [] f = "Clear" -> IF m \in Maps THEN SigOf(in, "Int") ELSE NoSig
        [] f \in Reductions -> CASE m = "MapIntInt" -> SigOf(in, "Int")
                                 [] m = "MapIntFloat" -> SigOf(in, "Float")
                                 [] OTHER -> NoSig
        [] f = "Split" -> IF in[2] \in {"MapIntStr", "MapStrStr"}
                          THEN SigOf(<<"Str", in[2], "Str">>, "Int") ELSE NoSig

AnySig(f, in) ==
  CASE f = "Eval" -> SigOf(<<"Str", in[2]>>, "Float")
    [] f = "Asort" -> SigOf(<<in[1], in[1]>>, "Int")
    [] f = "IntMapJoin" -> SigOf(<<in[1], "Str">>, "Str")
    [] f \in DOMAIN ByItsType -> SigOf(in, ByItsType[f])

OnScalars == {"Neg", "Pos", "Not", "ToInt"} \union Comparisons \union Arithmetic
OnMaps == {"Contains", "Delete", "IncMap", "Clear", "Split"} \union Reductions
OnAny == {"Eval", "Asort", "IntMapJoin"} \union DOMAIN ByItsType

TypeSig(f, in) == CASE Arity[f] # Len(in) -> NoSig
                    [] f \in OnScalars -> OperatorSig(f, in)
                    [] f \in OnMaps -> MapSig(f, in)
                    [] f \in OnAny -> AnySig(f, in)
                    [] OTHER -> FixedSig[f]

(***************************************************************************)
(* The inference                                                           *)
(***************************************************************************)
\* Operators, lines of input, text.
StepCore ==
  Each("Str", {
      "Min", "Max", "ToUpper", "ToLower", "JoinCSV", "JoinTSV", "Uuid",
      "Ulid", "Tsid", "LocalIp", "Strftime", "Fend", "Trim", "Truncate",
      "JoinCols", "EscapeCSV", "EscapeTSV", "Escape", "Column", "Concat",
      "Nextline", "NextlineCmd", "NextlineStdin", "GenSub", "Substr",
      "CharAt", "Encode", "Decode", "Digest", "Hmac", "Jwt", "ToJson",
      "JsonValue", "HtmlValue", "XmlValue", "ToCsv", "TypeOfVariable",
      "IntMapJoin", "MkPassword", "Encrypt", "Decrypt", "Fake", "Whoami",
      "Version", "Os", "OsFamily", "Arch", "Pwd", "UserHome", "GetEnv",
      "LastPart", "FormatBytes", "Capitalize", "UnCapitalize", "Mask",
      "CamelCase", "KebabCase", "SnakeCase", "TitleCase", "Figlet",
      "Repeat", "DefaultIfEmpty", "AppendIfMissing", "PrependIfMissing",
      "RemoveIfEnd", "RemoveIfBegin", "Quote", "DoubleQuote"}) @@
  Each("Float", {"Rand", "Div", "Pow", "Eval", "Strtonum"}) @@
  Each("Null", {"Setcol", "BloomFilterInsert"}) @@
  Each("Int", {
      "Clear", "SubstrIndex", "SubstrLastIndex", "Srand", "ReseedRng",
      "Not", "IsMatch", "LT", "GT", "LTE", "GTE", "EQ", "Length", "Strlen",
      "Split", "ReadErr", "ReadErrCmd", "ReadErrStdin", "Contains",
      "Delete", "Match", "Sub", "GSub", "ToInt", "Systime", "Mktime",
      "Duration", "System", "HexToInt", "Asort", "MkBool", "SnowFlake",
      "ToBytes", "StartsWith", "EndsWith", "TextContains",
      "BloomFilterContains", "BloomFilterContainsWithInsert", "IsArray",
      "IsNum", "IsInt", "IsFormat"}) @@
  Each("MapStrStr", {
      "System2", "Url", "SemVer", "Path", "DataUrl", "Dejwt", "Pairs",
      "Record", "Message"}) @@
  Each("MapIntStr", {"Chars", "JsonQuery", "HtmlQuery", "XmlQuery"})

\* Parsers, stores, documents.
StepTail ==
  Each("MapIntStr", {
      "Words", "Lines", "RegexParse", "Shlex", "Func", "Tuple",
      "ParseArray", "SqliteQuery", "MysqlQuery", "LibsqlQuery", "PgQuery",
      "Uniq", "FromCsv"}) @@
  Each("MapStrInt", {"DateTime", "Flags"}) @@
  Each("MapStrStr", {
      "Parse", "Variant", "HttpGet", "HttpPost", "FromJson", "ReadConfig"}) @@
  Each("MapIntInt", {"Hex2Rgb"}) @@
  Each("Str", {
      "Rgb2Hex", "S3Get", "S3Put", "PadLeft", "PadRight", "PadBoth",
      "KvGet", "ReadAll"}) @@
  Each("Int", {
      "SqliteExecute", "LibsqlExecute", "MysqlExecute", "PgExecute",
      "StrCmp"}) @@
  Each("Null", {
      "SmtpSend", "SendMail", "Exit", "SetFI", "UpdateUsedFields",
      "NextFile", "ReadLineStdinFused", "Close", "WriteAll", "KvPut",
      "KvDelete", "KvClear", "VarDump", "LogDebug", "LogInfo", "LogWarn",
      "LogError", "Publish"}) @@
  Each("MapIntFloat", {"Seq"})

\* Mutant: the largest, the sum and the mean of any array are integers.
X_Step(f, in) ==
  CASE f \in {"Neg", "Pos"} -> IF in[1] = "Str" THEN "Float" ELSE in[1]
    [] f \in Arithmetic -> ArithType(in[1], in[2])
    [] f = "IncMap" -> ArithType(ValOf(in[1]), in[3])
    [] f \in {"FloatFunc1", "FloatFunc2"} -> "Float"
    [] f \in {"IntFunc1", "IntFunc2"} \union Reductions -> "Int"
    [] OTHER -> (StepCore @@ StepTail)[f]

Step(f, in) ==
  CASE f \in {"Neg", "Pos"} -> IF in[1] = "Str" THEN "Float" ELSE in[1]
    [] f \in Arithmetic -> ArithType(in[1], in[2])
    [] f \in Reductions -> IF in[1] = "MapIntInt" THEN "Int" ELSE "Float"
    [] f = "IncMap" -> ArithType(ValOf(in[1]), in[3])
    [] f \in {"FloatFunc1", "FloatFunc2"} -> "Float"
    [] f \in {"IntFunc1", "IntFunc2"} -> "Int"
    [] OTHER -> (StepCore @@ StepTail)[f]
=============================================================================
