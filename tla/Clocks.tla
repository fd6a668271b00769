------------------------------- MODULE Clocks -------------------------------
(***************************************************************************)
(* What the audit says of times.  node/clock compares the clocks of the    *)
(* servers, backup/freshness says how old the last backup is and           *)
(* txn/long-running how long a transaction has been open; each is a        *)
(* difference of two readings, of clocks that disagree, taken at           *)
(* different moments of one pass (Collect and askBackup of collect.go,     *)
(* clockSkew, backupFreshness and longTransactions of audit.go).           *)
(*                                                                         *)
(* A pass has two conversations with the servers, CollectAll and then      *)
(* AskBackup, which share nothing but the clocks: a behaviour is one of    *)
(* them and the findings made of it.  Real time is 0 when it begins.  A    *)
(* clock is real time plus its error; a server writes a DATETIME in its    *)
(* own time zone, Zone ahead of UTC, and an epoch without one.             *)
(***************************************************************************)
EXTENDS Integers, FiniteSetsExt

CONSTANTS
    N,               \* the number of nodes, asked in the order of the config
    Timeout,         \* what a node is given, per conversation
    Zone,            \* what the time_zone of the servers adds to UTC
    Skews,           \* the errors a server's clock may have
    HostErrors,      \* the errors the clock of the auditing host may have
    StepSize,        \* by how much the clock of the host is set at once
    MaxSteps,        \* bound: how often it is set during the pass
    Before,          \* the moments before the pass at which things happened
    Forms,           \* what the backup table may hold: "epoch", "datetime", "text"
    Declarations,    \* the thresholds a configuration may declare, 0 where left out
    DefaultWarn, DefaultBad,        \* of backup/freshness
    ClockWarn, ClockBad,            \* of node/clock
    TransactionWarn                 \* of txn/long-running

Nodes == 1..N

ASSUME ClocksAssumption ==
    /\ N \in Nat \ {0} /\ Timeout \in Nat \ {0} /\ Zone \in Int
    /\ Skews \subseteq Int /\ HostErrors \subseteq Int /\ StepSize \in Nat /\ MaxSteps \in Nat
    /\ \A t \in Before : t \in Int /\ t <= 0
    /\ Forms \subseteq {"epoch", "datetime", "text"}
    /\ Declarations \subseteq [warn : Int, bad : Int]
    /\ {DefaultWarn, DefaultBad, ClockWarn, ClockBad, TransactionWarn} \subseteq Nat \ {0}
    /\ DefaultWarn <= DefaultBad

VARIABLES
    \* The world.
    now,       \* real time
    host,      \* the error of the host's clock
    skew,      \* per server, the error of its clock
    steps,     \* how often the host's clock was set
    open,      \* per server, when its transaction began: {} without one
    record,    \* the last backup: {}, or what was written, when, by whose clock
    \* The program.
    declared,  \* the thresholds of the configuration
    pc,        \* "refused", "collect", "backup", "audit" or "end"
    deadline,  \* of the outstanding conversations
    optNow,    \* opt.Now, read when the pass began
    stage,     \* per node: "ping", "clock", "rest", "read" or "failed"
    snap,      \* per node, its snapshot
    asking,    \* the node whose backup table is asked
    answer,    \* what askBackup has so far
    report,    \* the findings
    \* History, read by the properties only.
    truth      \* when and by whom the readings were really taken

world == <<now, host, skew, steps, open, record>>
vars == <<now, host, skew, steps, open, record, declared, pc, deadline, optNow, stage,
          snap, asking, answer, report, truth>>

-----------------------------------------------------------------------------
HostClock == now + host
ServerClock(n) == now + skew[n]

\* What a server writes when its clock says t.
Written(form, t) == IF form = "datetime" THEN t + Zone ELSE t

\* parseWhen: a DATETIME is taken for UTC, a text is no time ({}).
ParseWhen(form, v) == IF form = "text" THEN {} ELSE {v}

\* Mutant of Thresholds: bad_after stays where it was.
ThresholdsStay(d) ==
    [warn |-> IF d.warn # 0 THEN d.warn ELSE DefaultWarn,
     bad  |-> IF d.bad # 0 THEN d.bad ELSE DefaultBad]

\* validate: a bad_after that is left out follows a warn_after beyond it.
Thresholds(d) ==
    [warn |-> IF d.warn # 0 THEN d.warn ELSE DefaultWarn,
     bad  |-> CASE d.bad # 0 -> d.bad
                [] d.bad = 0 /\ d.warn > DefaultBad -> 2 * d.warn
                [] OTHER -> DefaultBad]

\* A configuration with other thresholds is refused.
Accepted(d) == 0 < Thresholds(d).warn /\ Thresholds(d).warn <= Thresholds(d).bad

Backup(form, w, t) == [form |-> form, value |-> Written(form, t + skew[w]), by |-> w, done |-> t]
NoSnap == [at |-> 0, clock |-> {}, started |-> {}]
NoAnswer == [now |-> {}, at |-> {}, err |-> TRUE]
NoReport == [clock |-> "none", long |-> {}, backup |-> "none", future |-> FALSE]

\* CollectAll is next, with the transactions that are open.
BeginCollect ==
    /\ pc = "collect"
    /\ asking = 0
    /\ open \in [Nodes -> {{}} \cup {{t} : t \in Before}]
    /\ record = {}
    /\ declared = [warn |-> 0, bad |-> 0]

\* AskBackup is next, with the backup that is recorded: unless the configuration
\* that declares the query was refused when it was loaded.
BeginBackup ==
    /\ declared \in Declarations
    /\ pc = IF Accepted(declared) THEN "backup" ELSE "refused"
    /\ asking = 1
    /\ open = [n \in Nodes |-> {}]
    /\ record \in {{}} \cup {{Backup(f, w, t)} : f \in Forms, w \in Nodes, t \in Before}

Init ==
    /\ now = 0 /\ steps = 0
    /\ host \in HostErrors
    /\ skew \in [Nodes -> Skews]
    /\ BeginCollect \/ BeginBackup
    /\ deadline = Timeout
    /\ optNow = HostClock
    /\ stage = [n \in Nodes |-> "ping"]
    /\ snap = [n \in Nodes |-> NoSnap]
    /\ answer = NoAnswer
    /\ report = NoReport
    /\ truth = [stamped |-> [n \in Nodes |-> 0], told |-> [n \in Nodes |-> 0],
                began |-> host, server |-> 0, asked |-> 0, host |-> 0, record |-> {}]

-----------------------------------------------------------------------------
(***************************************************************************)
(* The world: time passes while somebody waits, the host's clock is set    *)
(* (NTP), and a backup finishes under the clock of its server.             *)
(***************************************************************************)
Unfinished == {n \in Nodes : stage[n] \notin {"read", "failed"}}
program == <<declared, pc, deadline, optNow, stage, snap, asking, answer, report, truth>>

Tick ==
    /\ pc \in {"collect", "backup"}
    /\ pc = "collect" => Unfinished # {}
    /\ now < deadline
    /\ now' = now + 1
    /\ UNCHANGED <<host, skew, steps, open, record, program>>

SetClock ==
    /\ pc \in {"collect", "backup"}
    /\ steps < MaxSteps
    /\ steps' = steps + 1
    /\ \E by \in {StepSize, -StepSize} : host' = host + by
    /\ UNCHANGED <<now, skew, open, record, program>>

BackupFinishes ==
    /\ pc = "backup"
    /\ \E f \in Forms \ {"text"}, w \in Nodes : record' = {Backup(f, w, now)}
    /\ UNCHANGED <<now, host, skew, steps, open, program>>

-----------------------------------------------------------------------------
(***************************************************************************)
(* Collect, in a goroutine per node: the host's time, then at once the     *)
(* question for the server's clock, then everything else.                  *)
(***************************************************************************)
Collecting(n, s) ==
    /\ pc = "collect"
    /\ stage[n] = s
    /\ UNCHANGED <<world, declared, pc, deadline, optNow, asking, answer, report>>

\* The node answers the ping, and is stamped.
Stamp(n) ==
    /\ Collecting(n, "ping")
    /\ stage' = [stage EXCEPT ![n] = "clock"]
    /\ snap' = [snap EXCEPT ![n].at = HostClock]
    /\ truth' = [truth EXCEPT !.stamped[n] = now]

\* Its clock is read; or it is not, and the rest of the node is.
TellClock(n) ==
    /\ Collecting(n, "clock")
    /\ stage' = [stage EXCEPT ![n] = "rest"]
    /\ \/ /\ snap' = [snap EXCEPT ![n].clock = {ServerClock(n)}]
          /\ truth' = [truth EXCEPT !.told[n] = now]
       \/ UNCHANGED <<snap, truth>>

\* Status and variables are read, and the open transactions unless denied.
TellRest(n) ==
    /\ Collecting(n, "rest")
    /\ stage' = [stage EXCEPT ![n] = "read"]
    /\ \/ snap' = [snap EXCEPT ![n].started =
                      {Written("datetime", t + skew[n]) : t \in open[n]}]
       \/ UNCHANGED snap
    /\ UNCHANGED truth

\* The node is not read: it refuses, or its time is up.
Fail(n) ==
    /\ n \in Unfinished
    /\ Collecting(n, stage[n])
    /\ stage' = [stage EXCEPT ![n] = "failed"]
    /\ UNCHANGED <<snap, truth>>

\* CollectAll returns.
Return ==
    /\ pc = "collect"
    /\ Unfinished = {}
    /\ pc' = "audit"
    /\ UNCHANGED <<world, declared, deadline, optNow, stage, snap, asking, answer, report, truth>>

-----------------------------------------------------------------------------
(***************************************************************************)
(* AskBackup: the server's clock first, or this host's where the server    *)
(* does not tell; then the query.                                          *)
(***************************************************************************)
Asking ==
    /\ pc = "backup"
    /\ UNCHANGED <<world, declared, optNow, stage, snap, report>>

\* Mutant of AskClock: the age is measured on this host's clock.
AskClockHost ==
    /\ Asking
    /\ answer.now = {}
    /\ answer' = [answer EXCEPT !.now = {HostClock}]
    /\ truth' = [truth EXCEPT !.server = asking, !.asked = now]
    /\ UNCHANGED <<pc, asking, deadline>>

AskClock ==
    /\ Asking
    /\ answer.now = {}
    /\ \/ /\ answer' = [answer EXCEPT !.now = {ServerClock(asking)}]
          /\ truth' = [truth EXCEPT !.server = asking, !.asked = now]
       \/ /\ answer' = [answer EXCEPT !.now = {HostClock}]
          /\ truth' = [truth EXCEPT !.server = 0, !.asked = now, !.host = host]
    /\ UNCHANGED <<pc, asking, deadline>>

\* The node does not answer the query, or not with a time.
NoTime ==
    \/ /\ asking < N
       /\ asking' = asking + 1
       /\ deadline' = now + Timeout
       /\ answer' = NoAnswer
       /\ UNCHANGED pc
    \/ asking = N /\ pc' = "audit" /\ UNCHANGED <<asking, deadline, answer>>

\* The row, or that there is none; or no answer, and the next node is asked.
AskRow ==
    /\ Asking
    /\ answer.now # {}
    /\ \/ /\ \A b \in record : ParseWhen(b.form, b.value) # {}
          /\ answer' = [answer EXCEPT !.err = FALSE,
                           !.at = UNION {ParseWhen(b.form, b.value) : b \in record}]
          /\ truth' = [truth EXCEPT !.record = record]
          /\ pc' = "audit"
          /\ UNCHANGED <<asking, deadline>>
       \/ NoTime /\ UNCHANGED truth

-----------------------------------------------------------------------------
(***************************************************************************)
(* The findings.                                                           *)
(***************************************************************************)
Read == {n \in Nodes : stage[n] = "read"}
Clocked == {n \in Read : snap[n].clock # {}}

\* Mutant of Offsets: the readings are not corrected for when they were made.
OffsetsPlain == UNION {{c - optNow : c \in snap[n].clock} : n \in Clocked}

\* How far each clock that was read is ahead of the host's at its stamp.
Offsets == UNION {{c - snap[n].at : c \in snap[n].clock} : n \in Clocked}

Grade(value, warn, bad) ==
    IF value >= bad THEN "BAD" ELSE IF value >= warn THEN "WARN" ELSE "OK"

ClockSkew ==
    IF Cardinality(Clocked) < 2 THEN "none"
    ELSE Grade(Max(Offsets) - Min(Offsets), ClockWarn, ClockBad)

\* The nodes of which a transaction is named.
LongRunning == {n \in Read : \E t \in snap[n].started : optNow - t >= TransactionWarn}

Ages == {c - t : c \in answer.now, t \in answer.at}

BackupFreshness ==
    CASE asking = 0 -> "none"
      [] asking # 0 /\ answer.err -> "ERROR"
      [] asking # 0 /\ ~answer.err /\ Ages = {} -> "BAD"
      [] OTHER -> LET age == CHOOSE a \in Ages : TRUE
                  IN IF age < 0 THEN "WARN"
                     ELSE Grade(age, Thresholds(declared).warn, Thresholds(declared).bad)

Audit ==
    /\ pc = "audit"
    /\ pc' = "end"
    /\ report' = [clock |-> ClockSkew, long |-> LongRunning, backup |-> BackupFreshness,
                  future |-> \E a \in Ages : a < 0]
    /\ UNCHANGED <<world, declared, deadline, optNow, stage, snap, asking, answer, truth>>

\* The report is printed, or the configuration was refused.
Done == pc \in {"refused", "end"} /\ UNCHANGED vars

Next ==
    \/ Tick \/ SetClock \/ BackupFinishes
    \/ \E n \in Nodes : Stamp(n) \/ TellClock(n) \/ TellRest(n) \/ Fail(n)
    \/ Return \/ AskClock \/ AskRow \/ Audit \/ Done

Spec == Init /\ [][Next]_vars

-----------------------------------------------------------------------------
(***************************************************************************)
(* Properties.                                                             *)
(***************************************************************************)
\* The state has its type: in particular nothing is graded under thresholds
\* that are not positive or in the wrong order.
TypeOK ==
    /\ now \in 0..deadline /\ {host, optNow} \subseteq Int /\ steps \in 0..MaxSteps
    /\ skew \in [Nodes -> Skews]
    /\ stage \in [Nodes -> {"ping", "clock", "rest", "read", "failed"}]
    /\ pc \in {"refused", "collect", "backup", "audit", "end"}
    /\ pc # "refused" => 0 < Thresholds(declared).warn
                         /\ Thresholds(declared).warn <= Thresholds(declared).bad
    /\ pc = "refused" => declared.bad # 0 \/ declared.warn < 0
    /\ answer.at # {} => answer.now # {} /\ ~answer.err
    /\ asking \in 0..N

\* How much the clocks read really differ, and by how much a difference of two
\* readings may miss that: one round trip, and the steps of the host's clock.
TrueSpread == Max({skew[n] : n \in Clocked}) - Min({skew[n] : n \in Clocked})
Slack == Max({truth.told[n] - truth.stamped[n] : n \in Clocked}) + steps * StepSize

\* node/clock compares the servers with each other: how far this host's clock is
\* off, and how long a node was waited for before it was stamped, is not in it.
SkewIsReal ==
    /\ report.clock = "BAD" => TrueSpread + Slack >= ClockBad
    /\ report.clock = "WARN" => /\ TrueSpread + Slack >= ClockWarn
                                /\ TrueSpread - Slack < ClockBad
    /\ report.clock = "OK" => TrueSpread - Slack < ClockWarn

\* By how much the clock an age was measured on is ahead of what was recorded.
AgeError(b) ==
    (IF truth.server # 0 THEN skew[truth.server] ELSE truth.host)
        - skew[b.by] - Written(b.form, 0)

\* backup/freshness gives the age of the backup as the server that answered and the
\* one that wrote the record see it, whatever this host's clock says, and never
\* makes it older than it is.  It may be younger by the time the query took.
BackupAgeIsReal ==
    pc = "end" =>
        \A b \in truth.record :
            LET seen == now - b.done + AgeError(b)
                limits == Thresholds(declared)
            IN /\ report.backup = "BAD" => seen >= limits.bad
               /\ report.backup = "OK" => /\ seen >= 0
                                          /\ seen < limits.warn + (now - truth.asked)

\* txn/long-running: a transaction is named exactly where it had been open for
\* TransactionWarn when the pass began, as this host's clock and its server's see it.
TransactionAgeIsReal ==
    pc = "end" =>
        \A n \in Read : snap[n].started # {} =>
            (n \in report.long <=>
                \E t \in open[n] : truth.began - skew[n] - Zone - t >= TransactionWarn)

\* An age in the report is the age of the thing, up to what the clocks of the two
\* servers (of the host and the server, for a transaction) disagree by.
AgesAreReal == BackupAgeIsReal /\ TransactionAgeIsReal

\* Where the report calls a backup's record ahead of the server's clock, it is
\* (docs/checks.md, backup/freshness: a timestamp in the future is a clock problem):
\* its writer's clock is ahead of the one asked, or it finished after it was asked.
\* It does not hold of a DATETIME where the servers are ahead of UTC.
FutureIsAClock ==
    report.future =>
        \A b \in truth.record :
            \/ (IF truth.server # 0 THEN skew[truth.server] ELSE truth.host) < skew[b.by]
            \/ b.done > truth.asked
=============================================================================
