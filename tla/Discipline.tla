----------------------------- MODULE Discipline -----------------------------
(***************************************************************************)
(* What the steps of an Update keep among themselves, so that what it      *)
(* sends does not depend on how many items its loops have.                 *)
(***************************************************************************)
EXTENDS CollectorUpdate

CONSTANTS
    Flags,   \* the flags of each collector's script
    Judged   \* the judgements that hold in each collector's script

(***************************************************************************)
(* A judgement says of a place in a block - the Update, an item of a loop, *)
(* a helper - what holds whenever rest is what is left of the block: the   *)
(* sources that were obtained for certain and those that were lost for     *)
(* certain, in the block or around it; whether something may have been     *)
(* sent; and whether the block sends anything.                             *)
(***************************************************************************)
Judgement(flags, got, lost, sent, sends, rest) ==
    [flags |-> flags, got |-> got, lost |-> lost,
     sent |-> sent, sends |-> sends, rest |-> rest]

Known(j, steps)  == Judgement(j.flags, j.got, j.lost, j.sent, j.sends, steps)
Sees(j, steps)   == Judgement(j.flags, j.got \cup {j.rest[1].what}, j.lost,
                              j.sent, j.sends, steps)
Misses(j, steps) == Judgement(j.flags, j.got, j.lost \cup {j.rest[1].what},
                              j.sent, j.sends, steps)
Told(j, steps)   == Judgement(j.flags, j.got, j.lost, TRUE, j.sends, steps)

\* Inside a loop or a helper, and after it; e says whether it sends.  An item
\* may come after others that sent.
Into(j, e, steps) == Judgement(j.flags, j.got, j.lost, j.sent \/ e, e, steps)
Past(j, e, steps) == Judgement(j.flags, j.got, j.lost, j.sent \/ e, j.sends, steps)

\* The judgements that j leads to, one step on.
Premises(j, e) ==
    LET step == j.rest[1]
        after == Tail(j.rest)
    IN CASE j.rest = <<>> -> {}
         [] step.op = "read" ->
              {k \in {Sees(j, after)} : step.what \notin j.lost}
              \cup {k \in {Misses(j, after)} :
                      step.what \notin j.got /\ "next" \in {step.missing, step.failing}}
              \cup {k \in {Known(j, after)} :
                      step.what \notin j.got /\ "later" \in {step.missing, step.failing}}
         [] step.op = "do" ->
              {k \in {Known(j, after)} : step.reaction \in {"next", "later"}}
         [] step.op = "if" ->
              {k \in {Sees(j, step.then \o after)} : step.what \notin j.lost}
              \cup {k \in {Misses(j, step.else \o after)} : step.what \notin j.got}
         [] step.op = "flag" ->
              {Known(j, (IF step.what \in j.flags THEN step.then ELSE step.else) \o after)}
         [] step.op = "each" -> {Into(j, e, step.body), Past(j, e, after)}
         [] step.op = "call" ->
              {Into(j, e, step.body), Past(j, e, after),
               Past(j, e, <<Do(step.failed)>> \o after)}
         [] step.op = "once" -> {Known(j, after)}
         [] step.op = "send" -> {Told(j, after)}
         [] step.op = "deref" -> {Sees(j, after)}

\* Whether c may end by the reaction, or put it off, where j holds.
Tolerates(c, j, reaction) ==
    /\ reaction \in {"nodata", "unbuilt"} /\ c \notin LateNoData => ~j.sent
    /\ reaction = "error" /\ c \notin Incremental => ~j.sent
    /\ reaction = "later" => c \in Incremental

\* What the next step of c's script needs of j.
Permits(c, j) ==
    LET step == j.rest[1]
    IN  j.rest # <<>> =>
        /\ step.op = "read" /\ step.what \notin j.got =>
             Tolerates(c, j, step.missing) /\ Tolerates(c, j, step.failing)
        /\ step.op = "do" => Tolerates(c, j, step.reaction)
        /\ step.op = "flag" => step.what \in Flags[c]
        /\ step.op = "send" => j.sends /\ (c \notin Unbacked => step.what \in j.got)
        /\ step.op = "deref" => step.what \in j.got \/ <<c, step.what>> \in MayPanic

\* Where the script of c begins when flags are set; "" is the source of a
\* constant.
Outset(c, flags) == Judgement(flags, {""}, {}, FALSE, TRUE, Script[c])

Disciplined(c, judged) ==
    /\ \A flags \in SUBSET Flags[c] : Outset(c, flags) \in judged
    /\ \A j \in judged :
         /\ Permits(c, j)
         /\ \E e \in BOOLEAN : (e => j.sends) /\ Premises(j, e) \subseteq judged

ASSUME DisciplineAssumption == \A c \in Names : Disciplined(c, Judged[c])
=============================================================================
