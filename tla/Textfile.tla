------------------------------- MODULE Textfile -------------------------------
(***************************************************************************)
(* The Update of the textfile collector: files of metrics are read one     *)
(* after the other, and the help texts of a metric that occurs in several  *)
(* of them are reconciled.  One metric name is followed; the families of   *)
(* other names do not meet it.                                             *)
(*                                                                         *)
(* The agent leaves the directory unset, the tests set it.                 *)
(***************************************************************************)
EXTENDS Naturals, Sequences, FiniteSets

CONSTANTS
    Helps,       \* the help texts a file may give the metric
    PromFiles    \* bound: how many .prom files the directory holds

\* A family without a HELP line has a nil Help; Go's zero string is "".
NilHelp == "nil"

ASSUME TextfileAssumption == PromFiles \in Nat /\ NilHelp \notin Helps

VARIABLES
    step,       \* where Update is
    nextFile,   \* the file to read
    helpTexts,  \* metricsNamesToHelpTexts[name], <<>> when not seen
    families,   \* the help texts in parsedFamilies
    mtimes,     \* the files that are fresh
    errored,
    conflict,   \* history: two different texts were met
    firstHelp,  \* history: the first help text met, NilHelp before it
    sentHelps   \* the help texts the metric was sent with

textfileVars ==
    <<step, nextFile, helpTexts, families, mtimes, errored, conflict, firstHelp,
      sentHelps>>

TextfileInit ==
    /\ step = "directory"
    /\ nextFile = 1
    /\ helpTexts = <<>>
    /\ families = <<>>
    /\ mtimes = {}
    /\ errored = FALSE
    /\ conflict = FALSE
    /\ firstHelp = NilHelp
    /\ sentHelps = {}

\* An unset directory is no error, one that cannot be listed is.
ListDirectory ==
    /\ step = "directory"
    /\ \E listing \in {"unset", "unreadable", "listed"} :
         /\ step' = IF listing = "listed" THEN "files" ELSE "send"
         /\ errored' = (listing = "unreadable")
    /\ UNCHANGED <<nextFile, helpTexts, families, mtimes, conflict, firstHelp, sentHelps>>
-----------------------------------------------------------------------------
\* "Check for metrics with inconsistent help texts and take the first help
\* text occurrence."  The condition reads a && b || c.
Inconsistent(help) ==
    /\ helpTexts # <<>>
    /\ \/ help # NilHelp /\ help # helpTexts[1]
       \/ helpTexts[2] # ""

\* Mutant: an inconsistent family is reported, but exposed as well.
AddFamilyKept(help, fileErrored) ==
    /\ helpTexts' = IF Inconsistent(help) THEN <<helpTexts[1], help>>
                    ELSE IF help = NilHelp THEN helpTexts ELSE <<help, "">>
    /\ errored' = (errored \/ fileErrored \/ Inconsistent(help))
    /\ families' = Append(families, help)
    /\ conflict' = (conflict \/ Inconsistent(help))
    /\ UNCHANGED step
\* What becomes of the family with this help, and of the file's outcome.
AddFamily(help, fileErrored) ==
    IF Inconsistent(help)
    THEN /\ helpTexts' = <<helpTexts[1], help>>
         /\ errored' = TRUE
         /\ conflict' = (conflict \/ help \notin {NilHelp, helpTexts[1]})
         /\ step' = IF help = NilHelp THEN "panic" ELSE step
         /\ UNCHANGED families
    ELSE /\ helpTexts' = IF help = NilHelp THEN helpTexts ELSE <<help, "">>
         /\ families' = Append(families, help)
         /\ errored' = (errored \/ fileErrored)
         /\ UNCHANGED <<conflict, step>>

\* processFile: a file that is not opened, does not parse or has timestamps
\* gives nothing; one that cannot be stat'ed gives its families but no mtime.
RejectFile ==
    /\ step = "files"
    /\ nextFile <= PromFiles
    /\ nextFile' = nextFile + 1
    /\ errored' = TRUE
    /\ UNCHANGED <<step, helpTexts, families, mtimes, conflict, firstHelp, sentHelps>>

ProcessFile ==
    /\ step = "files"
    /\ nextFile <= PromFiles
    /\ nextFile' = nextFile + 1
    /\ \E help \in Helps \cup {NilHelp}, stat \in BOOLEAN :
         /\ AddFamily(help, ~stat)
         /\ firstHelp' = IF firstHelp = NilHelp THEN help ELSE firstHelp
         /\ mtimes' = IF stat THEN mtimes \cup {nextFile} ELSE mtimes
    /\ UNCHANGED sentHelps
-----------------------------------------------------------------------------
\* A family without help gets the names of the metric's files instead.
Generated == "Metric read from"

\* Every family is converted, the mtimes and the error flag follow.
ConvertFamilies ==
    /\ \/ step = "files" /\ nextFile > PromFiles
       \/ step = "send"
    /\ sentHelps' = {IF families[i] = NilHelp THEN Generated ELSE families[i] :
                       i \in DOMAIN families}
    /\ step' = "done"
    /\ UNCHANGED <<nextFile, helpTexts, families, mtimes, errored, conflict, firstHelp>>

TextfileNext ==
    ListDirectory \/ RejectFile \/ ProcessFile \/ ConvertFamilies

TextfileSpec == TextfileInit /\ [][TextfileNext]_textfileVars
-----------------------------------------------------------------------------
\* Unless some family of the metric has no help at all, the metric is sent
\* with no help text but the first one met: the gatherer refuses a second
\* one.  A dropped family is always reported in node_textfile_scrape_error.
\* A family without help ends the agent only after two different texts were
\* met.
HelpsReconciled ==
    /\ step = "done" =>
         /\ NilHelp \notin {families[i] : i \in DOMAIN families}
              => sentHelps \subseteq {firstHelp}
         /\ conflict \/ Cardinality(mtimes) < nextFile - 1 => errored
    /\ step = "panic" => conflict
=============================================================================
