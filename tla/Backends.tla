------------------------------- MODULE Backends -------------------------------
(* One call of a builtin function, or one subscript, on its way through frawk: the arguments are
   completed (cfg.rs), its result is typed (builtins.rs), it is compiled to
   bytecode (compile.rs), and the bytecode is run by the interpreter (interp.rs)
   and translated by the code generator (codegen).  A match whose pattern is known
   at compile time is folded on the way.  The types of the arguments,
   the output format and the use of the result are chosen freely; the modules
   Builtins, Lowering, Interp and Jit say what each step does.  *)
EXTENDS Lowering, Interp, Jit, Patterns

CONSTANTS
    Calls,      \* the calls of a program: [f, args], args a sequence of types;
                \* a subscript has "Index" for f, a map and a key
    Escapers,   \* output formats: "Identity", "CSV", "TSV"
    Constants,  \* patterns known at compile time
    Texts       \* what they are matched against

VARIABLES
    stage,      \* how far the call has come
    call,       \* the function and the types of its arguments
    dst,        \* the destination: register and type
    code,       \* the instructions
    folded,     \* the constant pattern folded into the code, or <<"none">>
    ran,        \* what the interpreter does: kernels and the registers they get
    built       \* what the generated code does
backendVars == <<stage, call, dst, code, folded, ran, built>>

Unused == <<UNUSED, "Int">>
Argument(k, t) == CASE t = "unused" -> Unused
                    [] t = "Null" -> <<NULL_REG, t>>
                    [] OTHER -> <<k, t>>
Arguments(c) == [k \in DOMAIN c.args |-> Argument(k, c.args[k])]
ArgTypes(c) == [k \in DOMAIN c.args |-> Arguments(c)[k][2]]

IsIndex(c) == c.f = "Index"

\* The functions only statements call: nobody sees their result.
Statements == {"Delete", "Clear", "NextFile", "ReadLineStdinFused",
               "UpdateUsedFields", "SetFI", "Setcol"}

\* The types a variable assigned a value of type t can have.
Joins(t) == CASE t = "Int" -> {"Int", "Float", "Str"}
              [] t = "Float" -> {"Float", "Str"}
              [] t = "Null" -> {"Null"} \union Scalars
              [] OTHER -> {t}

\* The type the inference gives the result, the type the code gives it, and the
\* code itself.
Inferred(c) == IF IsIndex(c) THEN ValOf(c.args[1]) ELSE Step(c.f, ArgTypes(c))
Signature(c) == IF IsIndex(c) THEN SigOf(ArgTypes(c), ValOf(c.args[1]))
                ELSE TypeSig(c.f, ArgTypes(c))
CodeFor(c, to) ==
  LET args == Arguments(c)
  IN  IF IsIndex(c) THEN LoadMap(args[1], args[2], to)
      ELSE Builtin(c.f, args, to)
RightLength(c) == IF IsIndex(c) THEN Len(c.args) = 2
                  ELSE Len(c.args) = Arity[c.f]

\* The registers an instruction makes: Reg::from asserts that they are used.
MakesRegs(i) == \A k \in DOMAIN i.regs :
                   i.op \in MapOpNames \union {"Mov"} \/ IsReg(i.regs[k][1])
Refused(c) == \E k \in DOMAIN c : c[k].op = "error"

-----------------------------------------------------------------------------
BackendsInit ==
  /\ stage = "source"
  /\ call \in Calls
  /\ dst = Unused
  /\ code = <<>>
  /\ folded = <<"none">>
  /\ ran = <<>>
  /\ built = <<>>

\* View::call of cfg.rs: missing arguments are filled in.
CompleteCall ==
  /\ stage = "source"
  /\ \E esc \in Escapers : call' = Complete(call.f, call.args, esc)
  /\ stage' = "call"
  /\ UNCHANGED <<dst, code, folded, ran, built>>

\* A call with the wrong number of arguments is an error.
RefuseArity ==
  /\ stage = "call"
  /\ ~RightLength(call)
  /\ stage' = "rejected"
  /\ UNCHANGED <<call, dst, code, folded, ran, built>>

\* The result is assigned to a variable the inference has typed, or dropped.
InferResult ==
  /\ stage = "call"
  /\ RightLength(call)
  /\ \/ /\ call.f \notin Statements
        /\ \E t \in Joins(Inferred(call)) : dst' = Argument(0, t)
     \/ dst' = Unused
  /\ stage' = "typed"
  /\ UNCHANGED <<call, code, folded, ran, built>>

\* builtin and load_map of compile.rs.
CompileCall ==
  /\ stage = "typed"
  /\ code' = CodeFor(call, dst)
  /\ stage' = IF Refused(code') THEN "rejected"
              ELSE IF \E k \in DOMAIN code' : ~MakesRegs(code'[k])
                   THEN "panicked"
              ELSE "compiled"
  /\ UNCHANGED <<call, dst, folded, ran, built>>

\* run_analyses: the only possible value of a pattern is put into the match.
FoldPattern ==
  /\ stage = "compiled"
  /\ call.f \in {"Match", "IsMatch"} /\ call.args[2] = "Str"
  /\ \E k \in DOMAIN code, p \in Constants :
       /\ code[k].op \in {"Match", "IsMatch"}
       /\ folded' = p
       /\ code' = [code EXCEPT ![k] =
                     Plain(FoldedOp(@.op, p), SubSeq(@.regs, 1, 2))]
  /\ UNCHANGED <<stage, call, dst, ran, built>>

Interpret ==
  /\ stage = "compiled"
  /\ ran' = [k \in DOMAIN code |->
               LET i == code[k]
               IN  [kernel |-> IF i.op \in DOMAIN RunKernel
                               THEN RunKernel[i.op] ELSE i.op,
                    args |-> [n \in DOMAIN RunArgs(i) |-> i.regs[RunArgs(i)[n]]]]]
  /\ stage' = "interpreted"
  /\ UNCHANGED <<call, dst, code, folded, built>>

Generate ==
  /\ stage = "interpreted"
  /\ built' = [k \in DOMAIN code |->
                 LET i == code[k]
                 IN  [kernel |-> KernelOf(i),
                      args |-> [n \in DOMAIN KernelArgs(i) |->
                                  i.regs[KernelArgs(i)[n]]]]]
  /\ stage' = "done"
  /\ UNCHANGED <<call, dst, code, folded, ran>>

BackendsNext == CompleteCall \/ RefuseArity \/ InferResult \/ CompileCall
                  \/ FoldPattern \/ Interpret \/ Generate
BackendsSpec == BackendsInit /\ [][BackendsNext]_backendVars

-----------------------------------------------------------------------------
\* Properties

Instructions == {code[k] : k \in DOMAIN code}
Compiled == stage \in {"compiled", "interpreted", "done"}

(* Every register an instruction is built with has the type the instruction
   declares for that operand: builtin picks the instruction by the converted
   types, and both backends index the registers by type without a check.  *)
OperandsFit ==
  Compiled => \A i \in Instructions :
                [k \in DOMAIN i.regs |-> i.regs[k][2]] = Operands(i)

(* Every register an instruction reads has been given a value: it belongs to an
   argument or an earlier instruction wrote it.  The only exceptions are the
   empty maps that stand for an argument left out.  *)
ReadsAreDefined ==
  Compiled =>
    \A k \in DOMAIN code : \A n \in DOMAIN code[k].regs \ Writes(code[k]) :
      LET r == code[k].regs[n]
      IN  \/ r \in {Arguments(call)[m] : m \in DOMAIN call.args}
          \/ \E e \in 1 .. k - 1 : \E w \in Writes(code[e]) :
               code[e].regs[w] = r
          \/ /\ r[2] \in Maps
             /\ \E m \in DOMAIN call.args : call.args[m] = "unused"

(* A result somebody wants is in its destination at the end, whatever
   conversions builtin put around the instruction.  *)
ResultIsStored ==
  Compiled /\ IsReg(dst[1]) =>
    \E k \in DOMAIN code : \E w \in Writes(code[k]) : code[k].regs[w] = dst

(* The registers of the arguments, which later code still reads, are left
   alone, but for the string sub and gsub change in place.  *)
ArgumentsKept ==
  Compiled => \A i \in Instructions : \A w \in Writes(i) :
                i.regs[w] \in {Arguments(call)[m] : m \in DOMAIN call.args}
                  => call.f \in {"Sub", "GSub"} /\ i.regs[w] = Arguments(call)[3]

(* accum visits every operand of every instruction: the slots of a parallel
   program, the used frames and the printing of programs rely on it.  The
   answers of typeof are the ones it leaves out.  *)
OperandsAreVisited ==
  Compiled => \A i \in Instructions :
    \/ Accumulated[i.op] = Len(i.regs)
    \/ i.op \in {"TypeOfArray", "TypeOfNumber", "TypeOfString",
                 "TypeOfUnassigned"}

(* What a call is lowered to is typed, reads what was written, leaves the
   result in its destination and the arguments as they were, and hides no
   operand from the passes that follow.  *)
LoweringIsSound ==
  OperandsFit /\ ReadsAreDefined /\ ResultIsStored /\ ArgumentsKept
    /\ OperandsAreVisited

(* The type the inference gave the result (builtins.rs, step) holds every value
   the instruction chosen later (type_sig) can produce: no result is cut down
   on its way to the variable.  Two functions answer a Null that is not what
   they return: close, and a sign in front of an unset variable.  *)
Rank(t) == CASE t = "Null" -> 0 [] t = "Int" -> 1 [] t = "Float" -> 2
             [] t = "Str" -> 3 [] OTHER -> 4
ResultsAreHeld ==
  stage = "typed" /\ dst # Unused /\ Signature(call) # NoSig =>
    LET inferred == Inferred(call)
        real == Signature(call).out
    IN  \/ Rank(real) <= Rank(inferred) /\ (real \in Maps => real = inferred)
        \/ call.f = "Close"
        \/ call.f \in {"Neg", "Pos"} /\ ArgTypes(call)[1] = "Null"

\* Functions defined for some types of maps only.
OnSomeMaps == {"ArrayMax", "ArrayMean", "ArrayMin", "ArraySum", "Asort",
               "IntMapJoin", "ToCsv", "IncMap", "Eval"}

(* A call of the right length is compiled, unless a map stands where a scalar
   or another map belongs: no mixture of scalars is refused, but for the
   negation of an unset variable.  *)
ScalarsAreAccepted ==
  stage = "rejected" =>
    \/ ~RightLength(call)
    \/ call.f \in OnSomeMaps
    \/ call.f = "Not" /\ ArgTypes(call)[1] = "Null"
    \/ call.f \in {"Clear", "Length"} /\ ArgTypes(call)[1] \notin Maps

(* A builtin function takes the arguments it should and has the type the rest
   of the program was told.  *)
InferenceHolds == ResultsAreHeld /\ ScalarsAreAccepted

\* The kernels that change something besides the registers.  The look up of a
\* key that is not in the map inserts it (get of SharedMap).
Effects ==
  {"run_command", "run_command2", "Close", "Exit", "send_mail", "smtp_send",
   "put_object", "kv_put", "kv_delete", "kv_clear", "write_all", "log_debug",
   "log_info", "log_warn", "log_error", "publish", "bf_insert", "bf_icontains",
   "sqlite_execute", "libsql_execute", "mysql_execute", "pg_execute",
   "match_regex", "match_const_regex", "Sub", "GSub", "split_regex_intmap",
   "split_regex_strmap", "split_regex_intmap_by_FS", "split_regex_strmap_by_FS",
   "map_int_int_asort", "map_int_float_asort", "map_int_str_asort", "reseed",
   "reseed_random", "http_post", "set_col", "NextLine", "NextFile",
   "NextLineStdin", "NextLineStdinFused", "Lookup", "Delete", "Clear", "IncInt",
   "IncFloat", "DumpMapIntInt", "DumpMapIntFloat", "DumpMapIntStr",
   "DumpMapStrInt", "DumpMapStrFloat", "DumpMapStrStr", "DumpStr", "DumpInt",
   "DumpFloat", "DumpNull"}
DroppedUnseen == {"Match", "Asort", "BloomFilterContainsWithInsert"}

(* A call whose result nobody uses keeps its effect: the instruction is emitted
   on a fresh register (compile.rs 1363-1371).  match, asort and bf_icontains
   are treated as if they had none.  *)
NoEffectDropped ==
  stage = "compiled" /\ dst = Unused /\ folded = <<"none">> =>
    LET used == CodeFor(call, <<0, Signature(call).out>>)
    IN  \A k \in DOMAIN used :
          KernelOf(used[k]) \in Effects =>
            \/ \E n \in DOMAIN code : code[n].op = used[k].op
            \/ call.f \in DroppedUnseen

\* Functions declared as reading only that do more.
DeclaredPure == {"http_post", "s3_put", "sqlite_execute", "libsql_execute",
                 "mysql_execute", "pg_execute", "bf_icontains",
                 "match_pat_loc", "match_const_pat_loc", "lookup"}

(* A call LLVM is told it may drop or merge with another has no effect, but for
   nine functions and the six that look up a key (register! in
   intrinsics.rs).  *)
ReadOnlyCallsArePure ==
  Compiled => \A i \in Instructions :
    IsCall(i) /\ IsReadOnly(i) =>
      KernelOf(i) \notin Effects \/ Callee(i) \in DeclaredPure

\* Functions emitted on the result's register even if there is none.
BareResult == {"Neg", "Not", "SqliteExecute", "LibsqlExecute", "MysqlExecute",
               "PgExecute"}

(* The only calls the compiler dies on are those emitted without a register for
   their result, and only as statements.  *)
PanicsAreKnown ==
  stage = "panicked" => call.f \in BareResult /\ dst = Unused

(* No effect of a call is lost: a call used as a statement does what it does as
   an expression, but for the eight functions named above, and LLVM is not told
   to drop one, but for those named above.  *)
EffectsAreKept == NoEffectDropped /\ PanicsAreKnown /\ ReadOnlyCallsArePure

\* Instructions whose interpreter arm and generated call do different work.
KnownToDiffer ==
  {"SplitInt", "SplitStr", "CharAt", "Substr", "Strftime",
   "BloomFilterContains", "BloomFilterContainsWithInsert", "MatchConst",
   "IsMatchConst"}

(* The interpreter and the generated code run the same kernels on the same
   operands in the same order, but for nine instructions.  *)
WorkIsTheSame ==
  stage = "done" =>
    \A k \in DOMAIN code :
      \/ ran[k] = built[k]
      \/ code[k].op \in KnownToDiffer /\ ran[k].args = built[k].args

\* How Cranelift and LLVM pass a value of a type.
Abi(t) == CASE t = "int_ty" -> "Int" [] t = "float_ty" -> "Float"
            [] t = "str_ty" -> "U128" [] t = "none" -> t [] OTHER -> "ptr"

\* A function takes and returns what it is declared with.  Some functions
\* ignore the runtime they are passed.
Fits(declared, function) ==
  /\ function.out = Abi(declared.out)
  /\ \/ function.in = [k \in DOMAIN declared.in |-> Abi(declared.in[k])]
     \/ function.in = <<>> /\ declared.in = <<"rt_ty">>

\* The two functions on maps of strings in variables are declared with a string
\* where they take the number of the variable.
DeclaredWrong == {"load_var_strstrmap", "store_var_strstrmap"}
DeclarationsFit ==
  \A fn \in DOMAIN Registered \ DeclaredWrong :
    Fits(Registered[fn], Externs[fn])

(* A call in the generated code passes what register! declared, and the
   function takes what was declared.  Nothing but this agreement of three
   tables keeps the stack of compiled code in order.  *)
CallsFit ==
  /\ DeclarationsFit
  /\ Compiled => \A i \in Instructions : IsCall(i) =>
       LET d == IF IsMapCall(i) THEN RegisteredMap(Callee(i), i.map)
                ELSE Registered[Callee(i)]
           f == IF IsMapCall(i) THEN MapFunction(Callee(i), i.map)
                ELSE Externs[Callee(i)]
       IN  d.in = CallArgs(i) /\ d.out = CallResult(i) /\ Fits(d, f)

(* What the interpreter does and what the generated code does, up to the
   functions both call, is the same.  *)
BackendsAgree == WorkIsTheSame /\ CallsFit

(* A folded match that stays a regular expression answers as before; one that
   becomes a comparison of prefixes does if the pattern is an anchor and a
   single character.  *)
SimpleFoldsKeepMatches ==
  folded # <<"none">> =>
    \A op \in {"Match", "IsMatch"}, text \in Texts :
      \/ FoldedMatches(op, folded, text) = Matches(folded, text)
      \/ folded[1] = Start /\ Len(folded) > 2
=============================================================================
