-------------------------- MODULE CollectorUpdate --------------------------
(***************************************************************************)
(* One call of Update of one stateless collector: the interpreter of the   *)
(* steps of module Steps.  A frame is the body of the Update, the current  *)
(* item of a loop, or a call of a helper whose error its caller handles.   *)
(***************************************************************************)
EXTENDS Steps

CONSTANTS
    Script,    \* the steps of each collector's Update
    MaxItems,  \* bound: items of a range loop
    Outside,   \* the steps outside every loop and helper
    Inside,    \* the steps of the bodies of loops and helpers
    \* The exceptions of the properties, each explained where it is listed.
    Incremental, LateNoData, MayRepeat, MayPanic, Unbacked

Names == DOMAIN Script

\* What Go's compiler requires of a function's body: break is inside a loop,
\* a loop ranges over something, and the reaction to a helper's error stands
\* where its call stands.
Breaks(step) ==
    \/ step.op = "do" /\ step.reaction = "break"
    \/ step.op = "read" /\ "break" \in {step.missing, step.failing}

Block(steps) ==
    \A step \in steps :
      /\ step.op \in {"if", "flag"} =>
           step.then \in Seq(steps) /\ step.else \in Seq(steps)
      /\ step.op = "each" => step.key # "" /\ step.body \in Seq(Inside)
      /\ step.op = "call" =>
           step.failed # "" /\ step.body \in Seq(Inside) /\ Do(step.failed) \in steps

ASSUME ScriptAssumption ==
    /\ \A c \in Names : Script[c] \in Seq(Outside)
    /\ \A step \in Outside : ~Breaks(step)
    /\ Block(Outside) /\ Block(Inside)

ASSUME MaxItemsAssumption == MaxItems \in Nat \ {0}

VARIABLES
    collector,  \* whose Update runs
    frames,     \* the stack of frames, innermost first
    watched,    \* one of the samples sent, whichever the behaviour watches
    seen,       \* what was seen on the channel
    verdict,    \* how Update ended
    cause       \* the source whose want ended it

updateVars == <<collector, frames, watched, seen, verdict, cause>>

\* Watching one sample, any of them, finds a repetition as remembering all of
\* them does, in far fewer states.
NotWatching == [series |-> "", labels |-> <<>>]

Frame(steps) ==
    [rest |-> steps, got |-> {}, lost |-> {},
     key |-> "", item |-> 0, label |-> 0, alike |-> FALSE, body |-> <<>>,
     failed |-> "", done |-> {}, late |-> FALSE]

UpdateInit ==
    /\ collector \in Names
    /\ frames = <<Frame(Script[collector])>>
    /\ watched = NotWatching
    /\ seen = {}
    /\ verdict = "none"
    /\ cause = ""
-----------------------------------------------------------------------------
Top == frames[1]
Running == verdict = "none"
At(op) == Running /\ Top.rest # <<>> /\ Top.rest[1].op = op
Step == Top.rest[1]

\* What is known of a source: obtained, or found wanting, in this item or
\* in a frame around it.
Got(s)  == s = "" \/ \E i \in DOMAIN frames : s \in frames[i].got
Lost(s) == \E i \in DOMAIN frames : s \in frames[i].lost

Goto(frame) == frames' = <<frame>> \o Tail(frames)
Passed(frame) == [frame EXCEPT !.rest = Tail(@)]

Calls == {i \in DOMAIN frames : frames[i].failed # ""}
NearestCall == CHOOSE i \in Calls : \A j \in Calls : i <= j

\* Mutant: the outermost return forgets its result.
ReturnNothing(result) == frames' = <<>> /\ UNCHANGED verdict
\* A return ends the helper or the Update; the caller of a helper that
\* returns an error reacts to it.
Return(result) ==
    IF Calls = {}
    THEN verdict' = result /\ frames' = <<>>
    ELSE LET around == SubSeq(frames, NearestCall + 1, Len(frames))
             failed == frames[NearestCall].failed
         IN  /\ frames' = IF result = "nil" THEN around
                          ELSE <<[around[1] EXCEPT !.rest = <<Do(failed)>> \o @]>>
                               \o Tail(around)
             /\ UNCHANGED verdict

React(reaction) ==
    \/ /\ reaction = "next"
       /\ Goto(Passed(Top))
       /\ UNCHANGED verdict
    \/ /\ reaction = "later"
       /\ frames' = [frames EXCEPT ![1].rest = Tail(@), ![Len(frames)].late = TRUE]
       /\ UNCHANGED verdict
    \/ /\ reaction = "skip"
       /\ Goto([Top EXCEPT !.rest = <<>>])
       /\ UNCHANGED verdict
    \/ /\ reaction = "break"
       /\ frames' = Tail(frames)
       /\ UNCHANGED verdict
    \/ /\ reaction \in {"nil", "nodata", "error", "unbuilt"}
       /\ Return(reaction)
-----------------------------------------------------------------------------
\* A source already read in this item or around it answers as before.
Obtain ==
    /\ At("read")
    /\ ~Lost(Step.what)
    /\ Goto([Passed(Top) EXCEPT !.got = @ \cup {Step.what}])
    /\ UNCHANGED <<collector, watched, seen, verdict, cause>>

\* Mutant: the error of a read is not checked.
MissUnchecked ==
    /\ At("read")
    /\ ~Got(Step.what)
    /\ Goto([Passed(Top) EXCEPT !.lost = @ \cup {Step.what}])
    /\ UNCHANGED <<collector, watched, seen, verdict, cause>>

\* Mutant: a read that fails ends the Update only when all is sent.
MissLate ==
    /\ At("read")
    /\ ~Got(Step.what)
    /\ \E reaction \in {Step.missing, Step.failing} :
         IF reaction = "next"
         THEN /\ Goto([Passed(Top) EXCEPT !.lost = @ \cup {Step.what}])
              /\ UNCHANGED verdict
         ELSE React(IF reaction = "error" THEN "later" ELSE reaction)
    /\ cause' = IF verdict' = "none" THEN cause ELSE Step.what
    /\ UNCHANGED <<collector, watched, seen>>

Miss ==
    /\ At("read")
    /\ ~Got(Step.what)
    /\ \E reaction \in {Step.missing, Step.failing} :
         IF reaction = "next"
         THEN /\ Goto([Passed(Top) EXCEPT !.lost = @ \cup {Step.what}])
              /\ UNCHANGED verdict
         ELSE React(reaction)
    /\ cause' = IF verdict' = "none" THEN cause ELSE Step.what
    /\ UNCHANGED <<collector, watched, seen>>

Act ==
    /\ At("do")
    /\ React(Step.reaction)
    /\ UNCHANGED <<collector, watched, seen, cause>>

Holds ==
    /\ At("if")
    /\ ~Lost(Step.what)
    /\ Goto([Top EXCEPT !.rest = Step.then \o Tail(@), !.got = @ \cup {Step.what}])
    /\ UNCHANGED <<collector, watched, seen, verdict, cause>>

\* Mutant: the condition is not checked.
FailsUnchecked ==
    /\ At("if")
    /\ ~Got(Step.what)
    /\ Goto([Top EXCEPT !.rest = Step.then \o Tail(@), !.lost = @ \cup {Step.what}])
    /\ UNCHANGED <<collector, watched, seen, verdict, cause>>

Fails ==
    /\ At("if")
    /\ ~Got(Step.what)
    /\ Goto([Top EXCEPT !.rest = Step.else \o Tail(@), !.lost = @ \cup {Step.what}])
    /\ UNCHANGED <<collector, watched, seen, verdict, cause>>

\* A flag is remembered for the whole Update, in the outermost frame.
Outer == Len(frames)

FlagSet ==
    /\ At("flag")
    /\ ~Lost(Step.what)
    /\ frames' = [frames EXCEPT ![1].rest = Step.then \o Tail(@),
                               ![Outer].got = @ \cup {Step.what}]
    /\ UNCHANGED <<collector, watched, seen, verdict, cause>>

FlagClear ==
    /\ At("flag")
    /\ ~Got(Step.what)
    /\ frames' = [frames EXCEPT ![1].rest = Step.else \o Tail(@),
                               ![Outer].lost = @ \cup {Step.what}]
    /\ UNCHANGED <<collector, watched, seen, verdict, cause>>

\* The label of item n: its number, or that of an earlier item like it.
LabelsOf(step, n) == IF step.alike THEN 1 .. n ELSE {n}

EnterLoop ==
    /\ At("each")
    /\ \/ Goto(Passed(Top))
       \/ frames' = <<[Frame(Step.body) EXCEPT
                          !.key = Step.key, !.item = 1, !.label = 1,
                          !.alike = Step.alike, !.body = Step.body],
                      Passed(Top)>> \o Tail(frames)
    /\ UNCHANGED <<collector, watched, seen, verdict, cause>>

NextItem ==
    /\ Running
    /\ Top.key # ""
    /\ Top.rest = <<>>
    /\ Top.item < MaxItems
    /\ \E label \in LabelsOf(Top, Top.item + 1) :
         Goto([Top EXCEPT !.rest = Top.body, !.item = @ + 1, !.label = label,
                          !.got = {}, !.lost = {}])
    /\ UNCHANGED <<collector, watched, seen, verdict, cause>>

\* A loop has no items or MaxItems, unless the code breaks out of it.
LeaveLoop ==
    /\ Running
    /\ Top.key # ""
    /\ Top.rest = <<>>
    /\ Top.item = MaxItems
    /\ frames' = Tail(frames)
    /\ UNCHANGED <<collector, watched, seen, verdict, cause>>

CallHelper ==
    /\ At("call")
    /\ frames' = <<[Frame(Step.body) EXCEPT !.failed = Step.failed], Passed(Top)>>
                 \o Tail(frames)
    /\ UNCHANGED <<collector, watched, seen, verdict, cause>>

\* What a helper read is known to its caller.
HelperReturns ==
    /\ Running
    /\ Top.failed # ""
    /\ Top.rest = <<>>
    /\ frames' = <<[frames[2] EXCEPT !.got = @ \cup Top.got, !.lost = @ \cup Top.lost]>>
                 \o Tail(Tail(frames))
    /\ UNCHANGED <<collector, watched, seen, verdict, cause>>

\* The labels of the current items of the loops over keys.
Labels(keys) ==
    [k \in keys |-> frames[CHOOSE i \in DOMAIN frames : frames[i].key = k].label]

NewLabels ==
    /\ At("once")
    /\ Labels(Step.labels) \notin frames[Outer].done
    /\ frames' = [frames EXCEPT ![1].rest = Tail(@),
                               ![Outer].done = @ \cup {Labels(Step.labels)}]
    /\ UNCHANGED <<collector, watched, seen, verdict, cause>>

OldLabels ==
    /\ At("once")
    /\ Labels(Step.labels) \in frames[Outer].done
    /\ React("skip")
    /\ UNCHANGED <<collector, watched, seen, cause>>

SendSamples ==
    /\ At("send")
    /\ LET sample == [series |-> Step.series, labels |-> Labels(Step.labels)]
           flaws  == (IF Got(Step.what) THEN {} ELSE {"unbacked"})
                     \cup (IF sample = watched THEN {"repeated"} ELSE {})
       IN  /\ watched' \in IF watched = NotWatching THEN {watched, sample} ELSE {watched}
           /\ seen' = seen \cup {"sample"} \cup flaws
    /\ Goto(Passed(Top))
    /\ UNCHANGED <<collector, verdict, cause>>

Dereference ==
    /\ At("deref")
    /\ IF Got(Step.what)
       THEN Goto(Passed(Top)) /\ UNCHANGED <<verdict, cause>>
       ELSE verdict' = "panic" /\ frames' = <<>> /\ cause' = Step.what
    /\ UNCHANGED <<collector, watched, seen>>

ReturnNil ==
    /\ Running
    /\ Len(frames) = 1
    /\ Top.rest = <<>>
    /\ Return(IF Top.late THEN "error" ELSE "nil")
    /\ UNCHANGED <<collector, watched, seen, cause>>

UpdateNext ==
    \/ Obtain \/ Miss \/ Act \/ Holds \/ Fails \/ FlagSet \/ FlagClear
    \/ EnterLoop \/ NextItem \/ LeaveLoop \/ CallHelper \/ HelperReturns
    \/ NewLabels \/ OldLabels \/ SendSamples \/ Dereference \/ ReturnNil

UpdateSpec == UpdateInit /\ [][UpdateNext]_updateVars
-----------------------------------------------------------------------------
Verdicts == {"none", "nil", "nodata", "error", "unbuilt", "panic"}

TypeOK ==
    /\ collector \in Names
    /\ verdict \in Verdicts
    /\ (verdict = "none") = (frames # <<>>)
    /\ seen \subseteq {"sample", "unbacked", "repeated"}
    /\ (seen # {}) = ("sample" \in seen)
    /\ watched # NotWatching => seen # {}
    /\ \A i \in DOMAIN frames :
         /\ frames[i].got \cap frames[i].lost = {}
         /\ frames[i].item \in 0 .. MaxItems

\* No collector sends a value it did not read: not after a read that failed
\* and was ignored, and not of an item whose read was skipped.
OnlyWhatWasRead ==
    collector \notin Unbacked => "unbacked" \notin seen

\* No Update sends two samples with the same name and labels: the gatherer
\* of the Prometheus client refuses them, and the scrape loses the metric.
SentOnce == collector \notin MayRepeat => "repeated" \notin seen

\* An Update that fails has sent nothing: ErrNoData "indicates the collector
\* found no data to collect, but had no other error" (collector.go), and a
\* collector that reads everything before it sends anything does not leave a
\* part of its samples behind.
FailureSentNothing ==
    /\ verdict \in {"nodata", "unbuilt"} /\ collector \notin LateNoData => seen = {}
    /\ verdict = "error" /\ collector \notin Incremental => seen = {}

\* Update never uses what it did not obtain - a nil pointer, a column that the
\* line does not have - but in the accesses that MayPanic names one by one, for
\* a panic in one of the collectors' goroutines ends the whole agent.  A
\* collector with a named access still has to guard its others.
NoPanic == verdict = "panic" => <<collector, cause>> \in MayPanic
=============================================================================
