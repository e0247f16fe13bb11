------------------------------ MODULE CallStack ------------------------------
(***************************************************************************)
(* What the evaluation stack promises to compiled code: a procedure finds  *)
(* its arguments, its locals and its temporaries as it left them, whatever *)
(* it calls; a call returns a value to the instruction after it; a tail    *)
(* call takes the place of its caller.                                     *)
(***************************************************************************)
EXTENDS Integers, Sequences, SequencesExt

CONSTANTS
    Procedures, NumArgs, NumLocals,  \* the procedures and their frames
    EnvOf,                           \* the lexical environment of each procedure
    SpecialArgs,                     \* the argument counts of special functions
    Offsets,                         \* where an instruction after a call may be
    Values                           \* what special functions and instructions make

VARIABLES
    runs,    \* the runs of the virtual machine, the innermost first: sequences of
             \* frames, the innermost first
    result   \* what the last run to end returned

vars == <<runs, result>>

Top == runs[1][1]
Running == runs # <<>> /\ Top.kind = "procedure"

\* A frame of procedure p that nothing has run in; its locals have no value yet.
Fresh(frame, p, args) ==
    /\ frame = [frame EXCEPT !.kind = "procedure", !.proc = p, !.pc = 0, !.env = EnvOf[p],
                             !.args = args, !.temps = <<>>]
    /\ Len(frame.locals) = NumLocals[p]

Special(kind, args, env) ==
    [kind |-> kind, proc |-> 0, pc |-> 0, env |-> env,
     args |-> args, locals |-> <<>>, temps |-> <<>>]

Suffix(s, n) == SubSeq(s, n + 1, Len(s))

Init == runs = <<>> /\ result \in Values

\* The embedding program or a special function runs a procedure.
Enter ==
    /\ runs = <<>> \/ Top.kind \in {"special", "specialTail"}
    /\ Len(runs') = Len(runs) + 1 /\ Tail(runs') = runs
    /\ Len(runs'[1]) = 1
    /\ \E p \in Procedures : Fresh(runs'[1][1], p, runs'[1][1].args)
                             /\ Len(runs'[1][1].args) = NumArgs[p]
    /\ result' = result

\* An instruction takes temporaries off, writes one slot, and pushes at most one.
Compute ==
    /\ Running
    /\ \/ \E v \in Values \cup Range(Top.args) \cup Range(Top.locals), n \in 0 .. Len(Top.temps) :
             runs' = [runs EXCEPT ![1][1].temps = <<v>> \o Suffix(@, n)]
       \/ Top.temps # <<>> /\ runs' = [runs EXCEPT ![1][1].temps = Tail(@)]
       \/ /\ Top.temps # <<>>
          /\ \E i \in DOMAIN Top.args :
                runs' = [runs EXCEPT ![1][1].args[i] = Top.temps[1], ![1][1].temps = Tail(@)]
       \/ /\ Top.temps # <<>>
          /\ \E i \in DOMAIN Top.locals :
                runs' = [runs EXCEPT ![1][1].locals[i] = Top.temps[1], ![1][1].temps = Tail(@)]
    /\ result' = result

\* The frames of the innermost run when its top one has made a call of n arguments:
\* they and the function are taken off.
AfterCall(n, pc) == [runs[1] EXCEPT ![1].temps = Suffix(@, n + 1), ![1].pc = pc]

ArgsOf(n) == SubSeq(Top.temps, 2, n + 1)

Call ==
    /\ Running /\ Len(runs') = Len(runs)
    /\ \E p \in Procedures, pc \in Offsets :
          /\ Len(Top.temps) > NumArgs[p]
          /\ Len(runs'[1]) = Len(runs[1]) + 1
          /\ Fresh(runs'[1][1], p, ArgsOf(NumArgs[p]))
          /\ runs' = <<(<<runs'[1][1]>> \o AfterCall(NumArgs[p], pc))>> \o Tail(runs)
    /\ result' = result

CallSpecial ==
    /\ Running
    /\ \E n \in SpecialArgs, pc \in Offsets :
          /\ Len(Top.temps) > n
          /\ runs' = <<(<<Special("special", ArgsOf(n), Top.env)>> \o AfterCall(n, pc))>> \o Tail(runs)
    /\ result' = result

TailCall ==
    /\ Running /\ Len(runs') = Len(runs)
    /\ \E p \in Procedures :
          /\ Len(Top.temps) > NumArgs[p]
          /\ Fresh(runs'[1][1], p, ArgsOf(NumArgs[p]))
          /\ runs' = [runs EXCEPT ![1][1] = runs'[1][1]]
    /\ result' = result

TailCallSpecial ==
    /\ Running
    /\ \E n \in SpecialArgs :
          /\ Len(Top.temps) > n
          /\ runs' = [runs EXCEPT ![1][1] = Special("specialTail", ArgsOf(n), Top.env)]
    /\ result' = result

\* The frames of the innermost run when the top one has returned v.
Give(v) == [Tail(runs[1]) EXCEPT ![1].temps = <<v>> \o @]

SpecialReturns ==
    /\ runs # <<>>
    /\ \E v \in Values \cup {result} :
          \/ /\ Top.kind = "special"
             /\ runs' = <<Give(v)>> \o Tail(runs)
          \/ /\ Top.kind = "specialTail"
             /\ runs' = [runs EXCEPT ![1][1].kind = "done", ![1][1].temps = <<v>>]
    /\ result' = result

Return ==
    /\ runs # <<>> /\ Top.kind \in {"procedure", "done"} /\ Top.temps # <<>>
    /\ IF Len(runs[1]) > 1
       THEN runs' = <<Give(Top.temps[1])>> \o Tail(runs) /\ result' = result
       ELSE runs' = Tail(runs) /\ result' = Top.temps[1]

Next ==
    \/ Enter \/ Compute \/ Call \/ CallSpecial \/ TailCall \/ TailCallSpecial
    \/ SpecialReturns \/ Return

Spec == Init /\ [][Next]_vars
=============================================================================
