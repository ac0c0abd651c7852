------------------------------ MODULE Bytecode ------------------------------
(* The typed instructions of bytecode.rs: the types of their operands, and the
   operands they report to the analyses of the compiler (Instr::accum).

   An instruction is a record [op, map, regs].  regs holds its register
   operands in the order of the enum, <<index, type>> each; map is the type of
   the map or iterator an instruction on one carries, and "Null" for the
   others.  Labels, slots, literals, regexes and the flag is_file are left
   out.  *)
EXTENDS Naturals, Sequences, TLC

IntMaps == {"MapIntInt", "MapIntFloat", "MapIntStr"}
StrMaps == {"MapStrInt", "MapStrFloat", "MapStrStr"}
Maps == IntMaps \union StrMaps
Iters == {"IterInt", "IterStr"}
Scalars == {"Int", "Float", "Str"}
Types == Scalars \union Maps \union Iters \union {"Null"}

\* The key, the value and the iterator type of a map.
KeyOf(m) == IF m \in IntMaps THEN "Int" ELSE "Str"
ValOf(m) == CASE m \in {"MapIntInt", "MapStrInt"} -> "Int"
              [] m \in {"MapIntFloat", "MapStrFloat"} -> "Float"
              [] OTHER -> "Str"
IterOf(m) == IF m \in IntMaps THEN "IterInt" ELSE "IterStr"

(* Two indices name no register: of a result nobody wants, and of the type
   Null.  Making a Reg of either panics. *)
UNUSED == 1000
NULL_REG == UNUSED - 1
IsReg(i) == i \notin {UNUSED, NULL_REG}

\* Tables: one entry for several names, pairs, and signatures.
Each(x, names) == [n \in names |-> x]
Pairs(S) == [x \in {p[1] : p \in S} |-> (CHOOSE p \in S : p[1] = x)[2]]
Sig(in, out, names) == Each([in |-> in, out |-> out], names)

(***************************************************************************)
(* The types of the operands, destinations first, in the order of the enum *)
(***************************************************************************)
\* Constants, conversions, arithmetic and strings.
ScalarOps ==
  Each(<<"Float">>, {"StoreConstFloat", "Rand"}) @@
  Each(<<"Int">>, {"StoreConstInt", "ReseedRng"}) @@
  Each(<<"Str">>, {"StoreConstStr"}) @@
  Each(<<"Float", "Float">>, {"NegFloat", "Float1"}) @@
  Each(<<"Float", "Int">>, {"IntToFloat"}) @@
  Each(<<"Float", "Str">>, {"StrToFloat"}) @@
  Each(<<"Int", "Float">>, {"FloatToInt"}) @@
  Each(<<"Int", "Int">>, {"Not", "NegInt", "Int1", "Srand"}) @@
  Each(<<"Int", "Str">>, {
      "StrToInt", "HexStrToInt", "NotStr", "StartsWithConst",
      "IsMatchConst", "MatchConst", "Strlen", "LenStr"}) @@
  Each(<<"MapIntStr", "Str">>, {"Chars"}) @@
  Each(<<"Str", "Float">>, {"FloatToStr"}) @@
  Each(<<"Str", "Int">>, {"IntToStr"}) @@
  Each(<<"Str", "Str">>, {"EscapeCSV", "EscapeTSV"}) @@
  Each(<<"Float", "Float", "Float">>, {
      "AddFloat", "MulFloat", "Div", "Pow", "MinusFloat", "ModFloat",
      "Float2"}) @@
  Each(<<"Int", "Int", "Int">>, {
      "AddInt", "MulInt", "MinusInt", "ModInt", "Int2"}) @@
  Each(<<"Int", "Str", "Str">>, {
      "IsMatch", "Match", "SubstrIndex", "SubstrLastIndex"}) @@
  Each(<<"Str", "Str", "Int">>, {"CharAt"}) @@
  Each(<<"Str", "Str", "Str">>, {"Concat", "LastPart"}) @@
  Each(<<"Int", "Str", "Str", "Str">>, {"Sub", "GSub"}) @@
  Each(<<"Str", "Str", "Int", "Int">>, {"Substr"}) @@
  Each(<<"Str", "Str", "Str", "Str", "Str">>, {"GenSubDynamic"})
\* Comparisons and columns.
CompareOps ==
  Each(<<"Int", "Str">>, {"SetColumn"}) @@
  Each(<<"Str", "Int">>, {"GetColumn"}) @@
  Each(<<"Str", "Str">>, {"ToUpperAscii", "ToLowerAscii"}) @@
  Each(<<"Int", "Float", "Float">>, {
      "LTFloat", "GTFloat", "LTEFloat", "GTEFloat", "EQFloat"}) @@
  Each(<<"Int", "Int", "Int">>, {
      "LTInt", "GTInt", "LTEInt", "GTEInt", "EQInt"}) @@
  Each(<<"Int", "Str", "Str">>, {
      "LTStr", "GTStr", "LTEStr", "GTEStr", "EQStr"}) @@
  Each(<<"Str", "Int", "Int">>, {"JoinCSV", "JoinTSV"}) @@
  Each(<<"Str", "Int", "Int", "Str">>, {"JoinColumns"})
\* Lines of input, the environment and codecs.
InputOps ==
  Each(<<>>, {"NextLineStdinFused", "NextFile"}) @@
  Each(<<"Int">>, {"ReadErrStdin", "Systime"}) @@
  Each(<<"Str">>, {
      "NextLineStdin", "Ulid", "Tsid", "LocalIp", "Whoami", "Version", "Os",
      "OsFamily", "Arch", "Pwd", "UserHome"}) @@
  Each(<<"Int", "Int">>, {"SnowFlake"}) @@
  Each(<<"Int", "Str">>, {"ReadErr", "Duration", "MkBool"}) @@
  Each(<<"Str", "Int">>, {"MkPassword"}) @@
  Each(<<"Str", "Str">>, {"NextLine", "Uuid", "Fend"}) @@
  Each(<<"Int", "Str", "Int">>, {"Mktime"}) @@
  Each(<<"MapStrStr", "Str", "Str">>, {"Dejwt"}) @@
  Each(<<"Str", "Str", "Int">>, {"Strftime"}) @@
  Each(<<"Str", "Str", "Str">>, {"GetEnv", "Encode", "Decode", "Digest"}) @@
  Each(<<"Str", "Str", "Str", "MapStrStr">>, {"Jwt"}) @@
  Each(<<"Str", "Str", "Str", "Str">>, {"Hmac", "Encrypt", "Decrypt"})
\* Parsers of structured text and tests of types.
ParseOps ==
  Each(<<"Int">>, {
      "IsArrayTrue", "IsArrayFalse", "IsIntTrue", "IsIntFalse", "IsNumTrue",
      "IsNumFalse"}) @@
  Each(<<"Str">>, {
      "TypeOfArray", "TypeOfNumber", "TypeOfString", "TypeOfUnassigned"}) @@
  Each(<<"Float", "Str">>, {"Eval"}) @@
  Each(<<"Int", "Str">>, {"IsStrInt", "IsStrNum"}) @@
  Each(<<"MapIntInt", "Str">>, {"Hex2Rgb"}) @@
  Each(<<"MapIntStr", "Str">>, {"Shlex", "Tuple", "ParseArray", "Func"}) @@
  Each(<<"MapStrInt", "Str">>, {"DateTime", "Flags"}) @@
  Each(<<"MapStrStr", "Str">>, {
      "Url", "Record", "Message", "SemVer", "Path", "DataUrl", "Variant"}) @@
  Each(<<"Float", "Str", "MapStrFloat">>, {"MapStrFloatEval"}) @@
  Each(<<"Float", "Str", "MapStrInt">>, {"MapStrIntEval"}) @@
  Each(<<"Float", "Str", "MapStrStr">>, {"MapStrStrEval"}) @@
  Each(<<"Int", "Str", "Str">>, {"IsFormat"}) @@
  Each(<<"MapIntStr", "MapIntStr", "Str">>, {"Uniq"}) @@
  Each(<<"MapIntFloat", "Float", "Float", "Float">>, {"Seq"}) @@
  Each(<<"MapStrStr", "Str", "Str", "Str">>, {"Pairs"}) @@
  Each(<<"Str", "Int", "Int", "Int">>, {"Rgb2Hex"}) @@
  Each(<<"Str", "Str", "Str", "Str">>, {"Min", "Max"})
\* The network, stores, logs and filters.
ServiceOps ==
  Each(<<"Str">>, {"KvClear", "LogDebug", "LogInfo", "LogWarn", "LogError"}) @@
  Each(<<"MapStrStr", "Str">>, {"ReadConfig"}) @@
  Each(<<"Str", "Str">>, {
      "KvDelete", "ReadAll", "WriteAll", "Publish", "BloomFilterInsert"}) @@
  Each(<<"Int", "Str", "Str">>, {
      "SqliteExecute", "LibsqlExecute", "MysqlExecute", "PgExecute",
      "BloomFilterContains", "BloomFilterContainsWithInsert"}) @@
  Each(<<"MapIntStr", "Str", "Str">>, {
      "SqliteQuery", "LibsqlQuery", "MysqlQuery", "PgQuery"}) @@
  Each(<<"MapStrStr", "Str", "MapStrStr">>, {"HttpGet"}) @@
  Each(<<"Str", "Str", "Str">>, {"S3Get", "KvGet", "KvPut", "Fake"}) @@
  Each(<<"MapStrStr", "Str", "Str", "MapStrStr">>, {"HttpPost"}) @@
  Each(<<"Str", "Str", "Str", "Str">>, {"SendMail", "S3Put"}) @@
  Each(<<"Str", "Str", "Str", "Str", "Str">>, {"SmtpSend"})
\* Documents, dumps and arrays.
DocumentOps ==
  Each(<<>>, {"DumpNull"}) @@
  Each(<<"Float">>, {"DumpFloat"}) @@
  Each(<<"Int">>, {"DumpInt"}) @@
  Each(<<"MapIntFloat">>, {"DumpMapIntFloat"}) @@
  Each(<<"MapIntInt">>, {"DumpMapIntInt"}) @@
  Each(<<"MapIntStr">>, {"DumpMapIntStr"}) @@
  Each(<<"MapStrFloat">>, {"DumpMapStrFloat"}) @@
  Each(<<"MapStrInt">>, {"DumpMapStrInt"}) @@
  Each(<<"MapStrStr">>, {"DumpMapStrStr"}) @@
  Each(<<"Str">>, {"NullToJson", "DumpStr"}) @@
  Each(<<"Float", "MapIntFloat">>, {
      "MapIntFloatMax", "MapIntFloatMin", "MapIntFloatSum",
      "MapIntFloatMean"}) @@
  Each(<<"Int", "MapIntInt">>, {
      "MapIntIntMax", "MapIntIntMin", "MapIntIntSum", "MapIntIntMean"}) @@
  Each(<<"MapIntStr", "Str">>, {"FromCsv"}) @@
  Each(<<"MapStrStr", "Str">>, {"FromJson"}) @@
  Each(<<"Str", "Float">>, {"FloatToJson"}) @@
  Each(<<"Str", "Int">>, {"IntToJson"}) @@
  Each(<<"Str", "MapIntFloat">>, {"MapIntFloatToJson", "MapIntFloatToCsv"}) @@
  Each(<<"Str", "MapIntInt">>, {"MapIntIntToJson", "MapIntIntToCsv"}) @@
  Each(<<"Str", "MapIntStr">>, {"MapIntStrToJson", "MapIntStrToCsv"}) @@
  Each(<<"Str", "MapStrFloat">>, {"MapStrFloatToJson"}) @@
  Each(<<"Str", "MapStrInt">>, {"MapStrIntToJson"}) @@
  Each(<<"Str", "MapStrStr">>, {"MapStrStrToJson"}) @@
  Each(<<"Str", "Str">>, {"StrToJson"}) @@
  Each(<<"Int", "MapIntFloat", "MapIntFloat">>, {"MapIntFloatAsort"}) @@
  Each(<<"Int", "MapIntInt", "MapIntInt">>, {"MapIntIntAsort"}) @@
  Each(<<"Int", "MapIntStr", "MapIntStr">>, {"MapIntStrAsort"}) @@
  Each(<<"MapIntStr", "Str", "Str">>, {
      "JsonQuery", "HtmlQuery", "XmlQuery"}) @@
  Each(<<"Str", "MapIntFloat", "Str">>, {"MapIntFloatJoin"}) @@
  Each(<<"Str", "MapIntInt", "Str">>, {"MapIntIntJoin"}) @@
  Each(<<"Str", "MapIntStr", "Str">>, {"MapIntStrJoin"}) @@
  Each(<<"Str", "Str", "Str">>, {"JsonValue", "HtmlValue", "XmlValue"})
\* Text, fields, split, and commands.
TextOps ==
  Each(<<>>, {"UpdateUsedFields"}) @@
  Each(<<"Int">>, {"Exit"}) @@
  Each(<<"Str">>, {"Close"}) @@
  Each(<<"Float", "Str">>, {"Strtonum"}) @@
  Each(<<"Int", "Int">>, {"SetFI"}) @@
  Each(<<"Int", "Str">>, {"ToBytes", "RunCmd"}) @@
  Each(<<"MapIntStr", "Str">>, {"Words", "Lines"}) @@
  Each(<<"MapStrStr", "Str">>, {"RunCmd2"}) @@
  Each(<<"Str", "Int">>, {"FormatBytes"}) @@
  Each(<<"Str", "Str">>, {
      "Capitalize", "UnCapitalize", "CamelCase", "KebabCase", "SnakeCase",
      "TitleCase", "Figlet", "Mask", "Quote", "DoubleQuote"}) @@
  Each(<<"Int", "Str", "Str">>, {
      "StartsWith", "EndsWith", "TextContains", "StrCmp"}) @@
  Each(<<"MapIntStr", "Str", "Str">>, {"RegexParse"}) @@
  Each(<<"MapStrStr", "Str", "Str">>, {"Parse"}) @@
  Each(<<"Str", "Str", "Int">>, {"Repeat"}) @@
  Each(<<"Str", "Str", "Str">>, {
      "Trim", "Escape", "DefaultIfEmpty", "AppendIfMissing",
      "PrependIfMissing", "RemoveIfEnd", "RemoveIfBegin"}) @@
  Each(<<"Int", "Str", "MapIntStr", "Str">>, {"SplitInt"}) @@
  Each(<<"Int", "Str", "MapStrStr", "Str">>, {"SplitStr"}) @@
  Each(<<"Str", "Str", "Int", "Str">>, {
      "Truncate", "PadLeft", "PadRight", "PadBoth"})
\* Instructions on a map of type m; those on an iterator carry the map it is
\* of.
MapOps(m) ==
  "Lookup" :> <<ValOf(m), m, KeyOf(m)>> @@ "Contains" :> <<"Int", m, KeyOf(m)>>
  @@ "Delete" :> <<m, KeyOf(m)>> @@ "Clear" :> <<m>> @@ "Len" :> <<"Int", m>>
  @@ "Store" :> <<m, KeyOf(m), ValOf(m)>>
  @@ "IncInt" :> <<ValOf(m), m, KeyOf(m), "Int">>
  @@ "IncFloat" :> <<ValOf(m), m, KeyOf(m), "Float">>
  @@ "IterBegin" :> <<IterOf(m), m>> @@ "IterHasNext" :> <<"Int", IterOf(m)>>
  @@ "IterGetNext" :> <<KeyOf(m), IterOf(m)>>

\* The awk variables and jumps.
VarOps ==
  Each(<<"Int">>, {"LoadVarInt", "StoreVarInt", "JmpIf"}) @@
  Each(<<"MapIntStr">>, {"LoadVarIntMap", "StoreVarIntMap"}) @@
  Each(<<"MapStrInt">>, {"LoadVarStrMap", "StoreVarStrMap"}) @@
  Each(<<"MapStrStr">>, {"LoadVarStrStrMap", "StoreVarStrStrMap"}) @@
  Each(<<"Str">>, {"LoadVarStr", "StoreVarStr"})
\* Instructions that carry a type of their own.
TypedOps(t) ==
  "Mov" :> <<t, t>> @@ "AllocMap" :> <<t>> @@ "LoadSlot" :> <<t>>
  @@ "StoreSlot" :> <<t>> @@ "Push" :> <<t>> @@ "Pop" :> <<t>>

PlainOps == ScalarOps @@ CompareOps @@ InputOps @@ ParseOps @@ ServiceOps
              @@ DocumentOps @@ TextOps @@ VarOps

\* The operand types of an instruction.
MapOpNames == DOMAIN MapOps("MapIntInt")
Operands(i) == CASE i.op \in DOMAIN PlainOps -> PlainOps[i.op]
                 [] i.op \in MapOpNames -> MapOps(i.map)[i.op]
                 [] OTHER -> TypedOps(i.map)[i.op]

(***************************************************************************)
(* The number of operands accum reports, out of as many                    *)
(***************************************************************************)
\* Constants, conversions, the environment and codecs.
AccumScalars ==
  Each(1, {
      "StoreConstStr", "StoreConstInt", "StoreConstFloat", "Ulid", "Tsid",
      "Whoami", "Version", "Os", "OsFamily", "Arch", "Pwd", "UserHome",
      "LocalIp", "Systime"}) @@
  Each(2, {
      "IntToStr", "FloatToStr", "Uuid", "SnowFlake", "Duration", "MkBool",
      "MkPassword", "Fend"}) @@
  Each(3, {
      "GetEnv", "Encode", "Decode", "Escape", "Digest", "Dejwt", "Strftime",
      "Mktime"}) @@
  Each(4, {"Hmac", "Jwt", "Encrypt", "Decrypt"})
\* Evaluation and parsers.
AccumParse ==
  Each(2, {
      "Eval", "Url", "Record", "Message", "SemVer", "Path", "DataUrl",
      "DateTime", "Shlex", "Tuple", "Flags", "ParseArray", "Hex2Rgb",
      "Variant", "Func"}) @@
  Each(3, {"MapStrIntEval", "MapStrFloatEval", "MapStrStrEval"}) @@
  Each(4, {"Pairs", "Rgb2Hex"})
\* The network, stores, logs and filters.
AccumServices ==
  Each(1, {"KvClear", "LogDebug", "LogInfo", "LogWarn", "LogError"}) @@
  Each(2, {
      "KvDelete", "ReadAll", "WriteAll", "ReadConfig", "Publish",
      "BloomFilterInsert"}) @@
  Each(3, {
      "HttpGet", "S3Get", "KvGet", "KvPut", "SqliteQuery", "SqliteExecute",
      "LibsqlQuery", "LibsqlExecute", "MysqlQuery", "MysqlExecute",
      "PgQuery", "PgExecute", "BloomFilterContains",
      "BloomFilterContainsWithInsert", "Fake"}) @@
  Each(4, {"HttpPost", "SendMail", "S3Put"}) @@
  Each(5, {"SmtpSend"})
\* Documents and dumps.
AccumDocuments ==
  Each(0, {"DumpNull"}) @@
  Each(1, {
      "NullToJson", "DumpMapIntInt", "DumpMapIntFloat", "DumpMapIntStr",
      "DumpMapStrInt", "DumpMapStrFloat", "DumpMapStrStr", "DumpStr",
      "DumpInt", "DumpFloat"}) @@
  Each(2, {
      "FromJson", "MapIntIntToJson", "MapIntFloatToJson", "MapIntStrToJson",
      "MapStrIntToJson", "MapStrFloatToJson", "MapStrStrToJson",
      "StrToJson", "IntToJson", "FloatToJson"}) @@
  Each(3, {
      "JsonValue", "JsonQuery", "HtmlValue", "HtmlQuery", "XmlValue",
      "XmlQuery"})
\* Arrays.
AccumArrays ==
  Each(2, {
      "MapIntIntMax", "MapIntFloatMax", "MapIntIntMin", "MapIntFloatMin",
      "MapIntIntSum", "MapIntFloatSum", "MapIntIntMean", "MapIntFloatMean",
      "FromCsv", "MapIntIntToCsv", "MapIntFloatToCsv", "MapIntStrToCsv"}) @@
  Each(3, {
      "MapIntIntAsort", "MapIntFloatAsort", "MapIntStrAsort",
      "MapIntIntJoin", "MapIntFloatJoin", "MapIntStrJoin", "Uniq"}) @@
  Each(4, {"Max", "Min", "Seq"})
\* Text.
AccumText ==
  Each(2, {
      "Strtonum", "FormatBytes", "ToBytes", "Capitalize", "UnCapitalize",
      "CamelCase", "KebabCase", "SnakeCase", "TitleCase", "Figlet", "Mask",
      "Quote", "DoubleQuote", "Words", "Lines"}) @@
  Each(3, {
      "Trim", "Parse", "RegexParse", "StartsWith", "EndsWith",
      "TextContains", "StrCmp", "Repeat", "DefaultIfEmpty",
      "AppendIfMissing", "PrependIfMissing", "RemoveIfEnd",
      "RemoveIfBegin"}) @@
  Each(4, {"Truncate", "PadLeft", "PadRight", "PadBoth"})
\* Tests of types and arithmetic.
AccumArith ==
  Each(0, {
      "TypeOfArray", "TypeOfNumber", "TypeOfString", "TypeOfUnassigned"}) @@
  Each(1, {
      "IsArrayTrue", "IsArrayFalse", "IsIntTrue", "IsIntFalse", "IsNumTrue",
      "IsNumFalse", "Rand", "ReseedRng"}) @@
  Each(2, {
      "IsStrInt", "IsStrNum", "StrToInt", "HexStrToInt", "StrToFloat",
      "FloatToInt", "IntToFloat", "Not", "NotStr", "NegInt", "NegFloat",
      "Float1", "Int1", "Srand"}) @@
  Each(3, {
      "IsFormat", "AddInt", "AddFloat", "MulInt", "MulFloat", "MinusInt",
      "MinusFloat", "ModInt", "ModFloat", "Pow", "Div", "Float2", "Int2"})
\* Strings and patterns.
AccumStrings ==
  Each(2, {
      "StartsWithConst", "MatchConst", "IsMatchConst", "Strlen", "LenStr",
      "EscapeCSV", "EscapeTSV", "Chars"}) @@
  Each(3, {
      "Concat", "Match", "IsMatch", "SubstrIndex", "SubstrLastIndex",
      "LastPart", "CharAt"}) @@
  Each(4, {"GSub", "Sub", "Substr"}) @@
  Each(5, {"GenSubDynamic"})
\* Comparisons and columns.
AccumCompare ==
  Each(2, {"SetColumn", "GetColumn", "ToUpperAscii", "ToLowerAscii"}) @@
  Each(3, {
      "LTFloat", "LTInt", "LTStr", "GTFloat", "GTInt", "GTStr", "LTEFloat",
      "LTEInt", "LTEStr", "GTEFloat", "GTEInt", "GTEStr", "EQFloat",
      "EQInt", "EQStr", "JoinCSV", "JoinTSV"}) @@
  Each(4, {"JoinColumns"})
\* Split and commands.
AccumCalls ==
  Each(1, {"Close", "Exit"}) @@
  Each(2, {"RunCmd", "RunCmd2"}) @@
  Each(4, {"SplitInt", "SplitStr"})
\* Maps, variables, slots, iterators and control.
AccumMaps ==
  Each(0, {
      "UpdateUsedFields", "NextFile", "NextLineStdinFused", "Call", "Jmp",
      "Ret"}) @@
  Each(1, {
      "Clear", "LoadVarStr", "StoreVarStr", "LoadVarInt", "StoreVarInt",
      "LoadVarIntMap", "StoreVarIntMap", "LoadVarStrMap", "StoreVarStrMap",
      "LoadVarStrStrMap", "StoreVarStrStrMap", "LoadSlot", "StoreSlot",
      "AllocMap", "ReadErrStdin", "NextLineStdin", "JmpIf", "Push", "Pop"}) @@
  Each(2, {
      "Delete", "Len", "IterBegin", "IterHasNext", "IterGetNext", "Mov",
      "ReadErr", "NextLine", "SetFI"}) @@
  Each(3, {"Lookup", "Contains", "Store"}) @@
  Each(4, {"IncInt", "IncFloat"})
\* Mutant: sub does not mention the string it changes.
X_Accumulated == Each(3, {"Sub"}) @@ AccumScalars @@ AccumParse @@ AccumServices
                   @@ AccumDocuments @@ AccumArrays @@ AccumText @@ AccumArith
                   @@ AccumStrings @@ AccumCompare @@ AccumCalls @@ AccumMaps

Accumulated == AccumScalars @@ AccumParse @@ AccumServices @@ AccumDocuments
                 @@ AccumArrays @@ AccumText @@ AccumArith @@ AccumStrings
                 @@ AccumCompare @@ AccumCalls @@ AccumMaps
=============================================================================
