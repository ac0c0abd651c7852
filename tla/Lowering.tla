------------------------------ MODULE Lowering ------------------------------
(* What the compiler makes of a call of a builtin function (compile.rs,
   builtin): the conversions of the arguments, the instruction, the conversion
   of the result.  A result that is not wanted has the destination
   <<UNUSED, "Int">>.  *)
EXTENDS Builtins

LOCAL INSTANCE SequencesExt

(***************************************************************************)
(* How each function is emitted:                                           *)
(*   value    the instruction, unless the result is unused                 *)
(*   effect   the instruction, on a fresh register if the result is unused *)
(*   raw      the instruction on whatever register the result has          *)
(*   probe    the instruction, without a result, unless that is unused     *)
(*   void     the instruction, without a result                            *)
(*   move, convert   no instruction of its own                             *)
(*   close    the instruction, then an empty string if the result is used  *)
(***************************************************************************)
\* Operators, functions on numbers.
EmitOperators ==
  Each("value", {
      "Plus", "Minus", "Mult", "Div", "Pow", "Mod", "Concat", "IsMatch",
      "LT", "GT", "LTE", "GTE", "EQ", "FloatFunc1", "FloatFunc2",
      "IntFunc1", "IntFunc2", "Match", "SubstrIndex", "SubstrLastIndex"}) @@
  Each("raw", {"Column", "Not", "Neg"}) @@
  Each("move", {"Pos"})

\* Maps, commands, lines of input, substitution.
EmitLines ==
  Each("value", {
      "Contains", "ReadErr", "ReadErrCmd", "ReadErrStdin", "GenSub"}) @@
  Each("effect", {"System", "System2", "Sub", "GSub"}) @@
  Each("raw", {"Nextline", "NextlineCmd", "NextlineStdin"}) @@
  Each("void", {
      "UpdateUsedFields", "SetFI", "Exit", "ReadLineStdinFused", "NextFile",
      "Setcol"})

\* Strings, random numbers, split.
EmitStrings ==
  Each("value", {
      "EscapeCSV", "EscapeTSV", "ToUpper", "ToLower", "Substr", "LastPart",
      "CharAt", "Chars", "HexToInt", "Strlen", "Length"}) @@
  Each("effect", {"Rand", "Srand", "ReseedRng", "Split", "IncMap"}) @@
  Each("void", {"Delete"}) @@
  Each("convert", {"ToInt"})

\* The environment.
EmitSystem ==
  Each("value", {"JoinCSV", "Uuid", "SnowFlake", "GetEnv"}) @@
  Each("effect", {
      "Ulid", "Tsid", "LocalIp", "Whoami", "Version", "Os", "OsFamily",
      "Arch", "Pwd", "UserHome"}) @@
  Each("void", {"Clear"}) @@
  Each("close", {"Close"})

\* Codecs.
EmitCodecs ==
  Each("value", {
      "Encode", "Decode", "Digest", "Hmac", "Jwt", "Dejwt", "Encrypt",
      "Decrypt", "Strftime", "Trim", "Escape", "Truncate", "Parse",
      "RegexParse", "Strtonum", "FormatBytes"})

\* Text.
EmitText ==
  Each("value", {
      "ToBytes", "StartsWith", "EndsWith", "TextContains", "Capitalize",
      "UnCapitalize", "CamelCase", "KebabCase", "SnakeCase", "TitleCase",
      "Figlet", "PadLeft", "PadRight", "PadBoth", "StrCmp", "Mask",
      "Repeat"})

\* Text and time.
EmitTime ==
  Each("value", {
      "DefaultIfEmpty", "AppendIfMissing", "PrependIfMissing",
      "RemoveIfEnd", "RemoveIfBegin", "Quote", "DoubleQuote", "Words",
      "Lines", "Mktime", "Duration", "MkBool", "MkPassword", "Fend",
      "Eval"}) @@
  Each("effect", {"Systime"})

\* Parsers and the network.
EmitParsers ==
  Each("value", {
      "Url", "Pairs", "Record", "Message", "SemVer", "Path", "DataUrl",
      "DateTime", "Shlex", "Tuple", "Flags", "ParseArray", "Hex2Rgb",
      "Rgb2Hex", "Variant", "Func", "HttpGet", "HttpPost"}) @@
  Each("void", {"SendMail"})

\* Stores and logs.
EmitStores ==
  Each("value", {
      "S3Get", "S3Put", "KvGet", "ReadAll", "ReadConfig", "FromJson"}) @@
  Each("raw", {
      "SqliteQuery", "SqliteExecute", "LibsqlQuery", "LibsqlExecute",
      "MysqlQuery", "MysqlExecute", "PgQuery", "PgExecute"}) @@
  Each("void", {
      "SmtpSend", "KvPut", "KvDelete", "KvClear", "WriteAll", "LogDebug",
      "LogInfo", "LogWarn", "LogError", "Publish"})

\* Documents.
EmitDocuments ==
  Each("value", {
      "ToJson", "JsonValue", "JsonQuery", "HtmlValue", "HtmlQuery",
      "XmlValue", "XmlQuery", "FromCsv", "ToCsv"}) @@
  Each("probe", {"VarDump"})

\* Arrays, filters, tests of types.
EmitFilters ==
  Each("value", {
      "Asort", "BloomFilterContains", "BloomFilterContainsWithInsert",
      "Fake", "TypeOfVariable", "IsArray", "IsInt", "IsNum", "IsFormat",
      "Uniq", "ArrayMax"}) @@
  Each("probe", {"BloomFilterInsert"})

\* Arrays and columns.
EmitArrays ==
  Each("value", {
      "ArrayMin", "ArraySum", "ArrayMean", "IntMapJoin", "Min", "Max",
      "Seq", "JoinTSV", "JoinCols"})

\* Mutant: seeding the random numbers is dropped with its result.
X_Emission == Each("value", {"Srand"}) @@ EmitOperators @@ EmitLines
                @@ EmitStrings @@ EmitSystem @@ EmitCodecs @@ EmitText
                @@ EmitTime @@ EmitParsers @@ EmitStores @@ EmitDocuments
                @@ EmitFilters @@ EmitArrays

Emission == EmitOperators @@ EmitLines @@ EmitStrings @@ EmitSystem
              @@ EmitCodecs @@ EmitText @@ EmitTime @@ EmitParsers @@ EmitStores
              @@ EmitDocuments @@ EmitFilters @@ EmitArrays

(***************************************************************************)
(* The instruction of a function, by the type of its deciding argument     *)
(***************************************************************************)
Renamed ==
  [System |-> "RunCmd", System2 |-> "RunCmd2", ReadErrCmd |-> "ReadErr",
   Nextline |-> "NextLine", NextlineCmd |-> "NextLine",
   NextlineStdin |-> "NextLineStdin",
   ReadLineStdinFused |-> "NextLineStdinFused",
   Setcol |-> "SetColumn", GenSub |-> "GenSubDynamic", Column |-> "GetColumn",
   ToUpper |-> "ToUpperAscii", ToLower |-> "ToLowerAscii",
   HexToInt |-> "HexStrToInt", JoinCols |-> "JoinColumns",
   FloatFunc1 |-> "Float1", FloatFunc2 |-> "Float2",
   IntFunc1 |-> "Int1", IntFunc2 |-> "Int2"]

ArithByType ==
  Pairs({
    <<<<"Plus", "Float">>, "AddFloat">>, <<<<"Plus", "Int">>, "AddInt">>,
    <<<<"Minus", "Float">>, "MinusFloat">>,
    <<<<"Minus", "Int">>, "MinusInt">>, <<<<"Mult", "Float">>, "MulFloat">>,
    <<<<"Mult", "Int">>, "MulInt">>, <<<<"Mod", "Float">>, "ModFloat">>,
    <<<<"Mod", "Int">>, "ModInt">>, <<<<"Neg", "Float">>, "NegFloat">>,
    <<<<"Neg", "Int">>, "NegInt">>, <<<<"LT", "Float">>, "LTFloat">>,
    <<<<"LT", "Int">>, "LTInt">>, <<<<"LT", "Str">>, "LTStr">>,
    <<<<"GT", "Float">>, "GTFloat">>, <<<<"GT", "Int">>, "GTInt">>,
    <<<<"GT", "Str">>, "GTStr">>, <<<<"LTE", "Float">>, "LTEFloat">>,
    <<<<"LTE", "Int">>, "LTEInt">>, <<<<"LTE", "Str">>, "LTEStr">>,
    <<<<"GTE", "Float">>, "GTEFloat">>, <<<<"GTE", "Int">>, "GTEInt">>,
    <<<<"GTE", "Str">>, "GTEStr">>, <<<<"EQ", "Float">>, "EQFloat">>,
    <<<<"EQ", "Int">>, "EQInt">>, <<<<"EQ", "Str">>, "EQStr">>,
    <<<<"Not", "Str">>, "NotStr">>, <<<<"Not", "Int">>, "Not">>})

ArraysByType ==
  Pairs({
    <<<<"ToCsv", "MapIntInt">>, "MapIntIntToCsv">>,
    <<<<"ToCsv", "MapIntFloat">>, "MapIntFloatToCsv">>,
    <<<<"ToCsv", "MapIntStr">>, "MapIntStrToCsv">>,
    <<<<"Asort", "MapIntInt">>, "MapIntIntAsort">>,
    <<<<"Asort", "MapIntFloat">>, "MapIntFloatAsort">>,
    <<<<"Asort", "MapIntStr">>, "MapIntStrAsort">>,
    <<<<"IntMapJoin", "MapIntInt">>, "MapIntIntJoin">>,
    <<<<"IntMapJoin", "MapIntFloat">>, "MapIntFloatJoin">>,
    <<<<"IntMapJoin", "MapIntStr">>, "MapIntStrJoin">>,
    <<<<"ArrayMax", "MapIntInt">>, "MapIntIntMax">>,
    <<<<"ArrayMax", "MapIntFloat">>, "MapIntFloatMax">>,
    <<<<"ArrayMin", "MapIntInt">>, "MapIntIntMin">>,
    <<<<"ArrayMin", "MapIntFloat">>, "MapIntFloatMin">>,
    <<<<"ArraySum", "MapIntInt">>, "MapIntIntSum">>,
    <<<<"ArraySum", "MapIntFloat">>, "MapIntFloatSum">>,
    <<<<"ArrayMean", "MapIntInt">>, "MapIntIntMean">>,
    <<<<"ArrayMean", "MapIntFloat">>, "MapIntFloatMean">>})

DumpsByType ==
  Pairs({
    <<<<"ToJson", "MapIntInt">>, "MapIntIntToJson">>,
    <<<<"ToJson", "MapIntFloat">>, "MapIntFloatToJson">>,
    <<<<"ToJson", "MapIntStr">>, "MapIntStrToJson">>,
    <<<<"ToJson", "MapStrInt">>, "MapStrIntToJson">>,
    <<<<"ToJson", "MapStrFloat">>, "MapStrFloatToJson">>,
    <<<<"ToJson", "MapStrStr">>, "MapStrStrToJson">>,
    <<<<"ToJson", "Str">>, "StrToJson">>,
    <<<<"ToJson", "Int">>, "IntToJson">>,
    <<<<"ToJson", "Float">>, "FloatToJson">>,
    <<<<"ToJson", "Null">>, "NullToJson">>,
    <<<<"VarDump", "MapIntInt">>, "DumpMapIntInt">>,
    <<<<"VarDump", "MapIntFloat">>, "DumpMapIntFloat">>,
    <<<<"VarDump", "MapIntStr">>, "DumpMapIntStr">>,
    <<<<"VarDump", "MapStrInt">>, "DumpMapStrInt">>,
    <<<<"VarDump", "MapStrFloat">>, "DumpMapStrFloat">>,
    <<<<"VarDump", "MapStrStr">>, "DumpMapStrStr">>,
    <<<<"VarDump", "Str">>, "DumpStr">>,
    <<<<"VarDump", "Int">>, "DumpInt">>,
    <<<<"VarDump", "Float">>, "DumpFloat">>,
    <<<<"VarDump", "Null">>, "DumpNull">>})

OthersByType ==
  Each("Eval", {<<"Eval", "Int">>, <<"Eval", "Null">>}) @@
  Each("Len", {"Length"} \X Maps) @@
  Each("Contains", {"Contains"} \X Maps) @@
  Each("Delete", {"Delete"} \X Maps) @@
  Each("Clear", {"Clear"} \X Maps) @@
  Each("IsNumTrue", {<<"IsNum", "Int">>, <<"IsNum", "Float">>}) @@
  Each("TypeOfNumber", {"TypeOfVariable"} \X {"Int", "Float"}) @@
  Each("TypeOfArray", {"TypeOfVariable"} \X Maps) @@
  Each("IsArrayTrue", {"IsArray"} \X Maps) @@
  Pairs({
    <<<<"Split", "MapIntStr">>, "SplitInt">>,
    <<<<"Split", "MapStrStr">>, "SplitStr">>,
    <<<<"Eval", "MapStrInt">>, "MapStrIntEval">>,
    <<<<"Eval", "MapStrFloat">>, "MapStrFloatEval">>,
    <<<<"Eval", "MapStrStr">>, "MapStrStrEval">>,
    <<<<"IncMap", "Int">>, "IncInt">>,
    <<<<"IncMap", "Float">>, "IncFloat">>,
    <<<<"Length", "Null">>, "StoreConstInt">>,
    <<<<"Length", "Str">>, "LenStr">>, <<<<"IsInt", "Int">>, "IsIntTrue">>,
    <<<<"IsInt", "Str">>, "IsStrInt">>, <<<<"IsNum", "Str">>, "IsStrNum">>,
    <<<<"TypeOfVariable", "Str">>, "TypeOfString">>})

ByType == ArithByType @@ ArraysByType @@ DumpsByType @@ OthersByType
ByTypeFunctions == {p[1] : p \in DOMAIN ByType}

\* What the tests of a type answer for every other type.
Otherwise == [IsInt |-> "IsIntFalse", IsNum |-> "IsNumFalse",
              IsArray |-> "IsArrayFalse", TypeOfVariable |-> "TypeOfUnassigned"]

Deciding(f) == CASE f \in {"Split", "Eval"} -> 2
                 [] f = "IncMap" -> 3
                 [] OTHER -> 1

OpOf(f, t) ==
  CASE <<f, t[Deciding(f)]>> \in DOMAIN ByType -> ByType[<<f, t[Deciding(f)]>>]
    [] f \in DOMAIN Otherwise -> Otherwise[f]
    [] f \in ByTypeFunctions -> "error"
    [] OTHER -> f
Op(f, t) == CASE f \in DOMAIN Renamed -> Renamed[f]
              [] f \in ByTypeFunctions -> OpOf(f, t)
              [] OTHER -> f

\* The instructions that take none of the arguments, and those that take only
\* the first.
Answers == {"IsIntTrue", "IsIntFalse", "IsNumTrue", "IsNumFalse", "IsArrayTrue",
            "IsArrayFalse", "TypeOfArray", "TypeOfNumber", "TypeOfString",
            "TypeOfUnassigned", "NullToJson", "DumpNull", "StoreConstInt"}
OnMap == {"Len", "Contains", "Delete", "Clear", "IncInt", "IncFloat"}

Instruction(op, dst, c) ==
  [op |-> op, map |-> IF op \in OnMap THEN c[1][2] ELSE "Null",
   regs |-> dst \o CASE op \in Answers -> <<>>
                     [] op = "Eval" -> SubSeq(c, 1, 1)
                     [] OTHER -> c]
Plain(op, regs) == [op |-> op, map |-> "Null", regs |-> regs]

(***************************************************************************)
(* Conversions                                                             *)
(***************************************************************************)
\* Mutant: strings are not converted to floats.
X_Conversion ==
  Pairs({<<<<"Float", "Int">>, "IntToFloat">>, <<<<"Str", "Int">>, "IntToStr">>,
         <<<<"Int", "Float">>, "FloatToInt">>,
         <<<<"Str", "Float">>, "FloatToStr">>, <<<<"Int", "Str">>, "StrToInt">>})

Conversion ==
  Pairs({<<<<"Float", "Int">>, "IntToFloat">>, <<<<"Str", "Int">>, "IntToStr">>,
         <<<<"Int", "Float">>, "FloatToInt">>,
         <<<<"Str", "Float">>, "FloatToStr">>, <<<<"Int", "Str">>, "StrToInt">>,
         <<<<"Float", "Str">>, "StrToFloat">>})
Zero == [Float |-> "StoreConstFloat", Int |-> "StoreConstInt",
         Str |-> "StoreConstStr"]

Move(dst, src) ==
  IF UNUSED \in {dst[1], src[1]} \/ src[2] = "Null" THEN <<>>
  ELSE <<[op |-> "Mov", map |-> src[2], regs |-> <<dst, src>>]>>

Failed == <<Plain("error", <<>>)>>

\* Mutant: a register converted from an unset variable is left as it is.
X_Convert(dst, src) ==
  CASE UNUSED \in {dst[1], src[1]} \/ dst = src \/ dst[2] = "Null" -> <<>>
    [] src[2] = "Null" /\ dst[2] \in Scalars -> <<>>
    [] <<dst[2], src[2]>> \in DOMAIN Conversion ->
         <<Plain(Conversion[<<dst[2], src[2]>>], <<dst, src>>)>>
    [] OTHER -> IF dst[2] = src[2] THEN Move(dst, src) ELSE Failed

Convert(dst, src) ==
  CASE UNUSED \in {dst[1], src[1]} \/ dst = src \/ dst[2] = "Null" -> <<>>
    [] src[2] = "Null" /\ dst[2] \in Scalars -> <<Plain(Zero[dst[2]], <<dst>>)>>
    [] <<dst[2], src[2]>> \in DOMAIN Conversion ->
         <<Plain(Conversion[<<dst[2], src[2]>>], <<dst, src>>)>>
    [] dst[2] = src[2] -> IF dst[2] \in Iters THEN Failed ELSE Move(dst, src)
    [] OTHER -> Failed

(***************************************************************************)
(* The code of a call                                                      *)
(***************************************************************************)
\* A register that is new; one of type Null is NULL_REG.
FreshReg(i, t) == IF t = "Null" THEN <<NULL_REG, t>> ELSE <<i, t>>

\* The arguments at the types the function wants them at.
Converted(args, sig) ==
  [k \in DOMAIN args |-> IF args[k][2] = sig.in[k] THEN args[k]
                         ELSE FreshReg(100 + k, sig.in[k])]
Result(dst, sig) == IF dst[2] = sig.out THEN dst ELSE FreshReg(200, sig.out)

\* inc_map is refused where the result is not what the map holds.
Malformed(f, c, out) == f = "IncMap" /\ (\/ ValOf(c[1][2]) # out
                                        \/ KeyOf(c[1][2]) # c[2][2])

Target(f, res) == IF Emission[f] = "effect" /\ res[1] = UNUSED
                  THEN FreshReg(201, res[2]) ELSE res

Body(f, c, res) ==
  LET t == [k \in DOMAIN c |-> c[k][2]]
      inst == Instruction(Op(f, t), <<Target(f, res)>>, c)
      bare == Instruction(Op(f, t), <<>>, c)
      unused == res[1] = UNUSED
  IN  CASE Emission[f] = "move" -> Move(res, c[1])
        [] Emission[f] = "convert" -> Convert(res, c[1])
        [] Emission[f] \in {"value", "probe"} /\ unused -> <<>>
        [] Op(f, t) = "error" \/ Malformed(f, c, res[2]) -> Failed
        [] Emission[f] \in {"void", "probe"} -> <<bare>>
        [] Emission[f] = "close" ->
             <<bare>> \o IF unused THEN <<>>
                         ELSE <<Plain("StoreConstStr", <<res>>)>>
        [] OTHER -> <<inst>>

Builtin(f, args, dst) ==
  LET sig == TypeSig(f, [k \in DOMAIN args |-> args[k][2]])
      c == Converted(args, sig)
      res == Result(dst, sig)
  IN  IF sig = NoSig THEN Failed
      ELSE FlattenSeq([k \in DOMAIN args |-> Convert(c[k], args[k])])
             \o Body(f, c, res)
             \o Convert(dst, Target(f, res))

(***************************************************************************)
(* The code of a subscript                                                 *)
(***************************************************************************)
\* load_map: a read inserts what it does not find, so that it is emitted even
\* where nobody uses the value.
LoadMap(m, key, dst) ==
  LET wanted == IF dst[1] = UNUSED THEN FreshReg(201, dst[2]) ELSE dst
      k == IF key[2] = KeyOf(m[2]) THEN key ELSE FreshReg(101, KeyOf(m[2]))
      loaded == IF wanted[2] = ValOf(m[2]) THEN wanted
                ELSE FreshReg(200, ValOf(m[2]))
  IN  Convert(k, key)
        \o <<[op |-> "Lookup", map |-> m[2], regs |-> <<loaded, m, k>>]>>
        \o Convert(wanted, loaded)
=============================================================================
