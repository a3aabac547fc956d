------------------------------- MODULE Steps -------------------------------
(***************************************************************************)
(* The vocabulary in which the Update methods of the stateless collectors  *)
(* are written down (modules KernelCollectors, ...): an Update is the      *)
(* sequence of its steps.  CollectorUpdate gives the steps their meaning.  *)
(*                                                                         *)
(* A source is a file, a system call, a parsed number, or a condition on   *)
(* the data; reading it may succeed, find nothing (fs.ErrNotExist), or     *)
(* fail.  A reaction says how the code goes on:                            *)
(*   "next"    the following step      "skip"   the loop's next item       *)
(*   "break"   the step after the loop "nil"    return nil                 *)
(*   "nodata"  return ErrNoData        "error"  return another error       *)
(*   "unbuilt" the constructor fails                                       *)
(*   "later"   the following step; the error is returned at the end        *)
(***************************************************************************)
EXTENDS Naturals, Sequences

Read(source, missing, failing) ==
    [op |-> "read", what |-> source, missing |-> missing, failing |-> failing]

Must(source)   == Read(source, "error", "error")   \* any failure is an error
Build(source)  == Read(source, "unbuilt", "unbuilt")  \* in the constructor
Data(source)   == Read(source, "nodata", "error")  \* absent: ErrNoData
Try(source)    == Read(source, "next", "next")     \* a failure is ignored
OrSkip(source) == Read(source, "skip", "skip")     \* a failure skips the item

Do(reaction) == [op |-> "do", reaction |-> reaction]

\* A condition on the data just read.
If(condition, then, else) ==
    [op |-> "if", what |-> condition, then |-> then, else |-> else]
When(condition, then) == If(condition, then, <<>>)

SkipIf(condition) == When(condition, <<Do("skip")>>)
SkipUnless(condition) == If(condition, <<>>, <<Do("skip")>>)

\* A condition that does not change during the Update: a flag, the platform.
Flag(name, then, else) ==
    [op |-> "flag", what |-> name, then |-> then, else |-> else]

\* A range loop over items that a label or the metric name tells apart, and
\* over items that may look the same in the labels.
Each(key, body)  == [op |-> "each", key |-> key, alike |-> FALSE, body |-> body]
Alike(key, body) == [op |-> "each", key |-> key, alike |-> TRUE, body |-> body]

\* Skips an item whose labels were met before in this Update.
Once(labels) == [op |-> "once", labels |-> labels]

\* A helper whose error the caller handles by the reaction failed.
Call(body, failed) == [op |-> "call", body |-> body, failed |-> failed]

\* An access that panics if source - the target of a pointer, an element, a
\* value of the type asserted - was not obtained; and one that the code makes
\* without having checked that it was.
Deref(source) == [op |-> "deref", what |-> source]
Unchecked(source) == <<Try(source), Deref(source)>>

\* The samples of a group of metrics, labelled by the items of the loops in
\* labels, with values taken from source ("" for a constant).
Send(series, labels, source) ==
    [op |-> "send", series |-> series, labels |-> labels, what |-> source]

\* Of the fields of an item, those that are there are sent, each as a metric
\* or label value of its own.
Present(field, series, labels, source) ==
    Each(field, <<Send(series, labels \cup {field}, source)>>)

\* Of the pointers of an item, those that are not nil are dereferenced and sent.
NotNil(field, series, labels) ==
    Each(field, <<When(field, <<
        Deref(field), Send(series, labels \cup {field}, field)>>)>>)
=============================================================================
