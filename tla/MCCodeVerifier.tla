--------------------------- MODULE MCCodeVerifier ---------------------------
(* All functions of a few instructions: the codes whose instructions, read from
   the first to the last, never ask for more values than are there and branch
   or return with none left.  The stack usage verifier accepts no others. *)
EXTENDS CodeVerifier

CONSTANTS MaxAny,      \* length of the codes with any instructions
          MaxStraight, \* length of the codes without Branch and Abort
          MaxTwo,      \* length of such codes with two locals
          FirstTarget  \* no branch leads to an instruction before this one

MCStraight == {"Ld", "Pop", "Pack", "Unpack", "MoveLoc", "CopyLoc", "StLoc", "BrTrue", "Ret"}
MCAny == MCStraight \cup {"Branch", "Abort"}

\* Pairs of a code of length n and the height it leaves.
MCCodes(n, ops, locals, rets) ==
  LET effect(i) == instruction_effect(i, rets)
      allowed == {i \in Instructions(n, locals) :
                    i.op \in ops /\ \A t \in offset(i) : t >= FirstTarget}
      follows(p, i) ==
        /\ p[2] >= effect(i)[1]
        /\ is_branch(i) => p[2] = effect(i)[1]
        /\ Len(p[1]) = n - 1 => is_unconditional_branch(i)
        /\ p[2] - effect(i)[1] + effect(i)[2] < n - Len(p[1])
      more(p) == {<<Append(p[1], i), p[2] - effect(i)[1] + effect(i)[2]>> :
                    i \in {j \in allowed : follows(p, j)}}
      level[k \in 0..n] == IF k = 0 THEN {<<<<>>, 0>>} ELSE UNION {more(p) : p \in level[k - 1]}
  IN  level[n]

\* Functions whose parameters are any of their locals.
MCFunctions(max, ops, locals, rets) ==
  UNION {{[code |-> [i \in 0..n - 1 |-> p[1][i + 1]], locals |-> types, args |-> args, returns |-> rets] :
            p \in MCCodes(n, ops, locals, Len(rets)),
            types \in [locals -> Types], args \in SUBSET locals} : n \in 1..max}

MCPrograms ==
  MCFunctions(MaxStraight, MCStraight, {0}, <<>>)
    \cup MCFunctions(MaxTwo, MCStraight, {0, 1}, <<>>)
    \cup UNION {MCFunctions(MaxAny, MCAny, {0}, rets) :
                  rets \in {<<>>, <<"unrestricted">>, <<"resource">>}}
=============================================================================
