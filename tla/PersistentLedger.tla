-------------------------- MODULE PersistentLedger --------------------------
(***************************************************************************)
(* The audit ledger of one server process and its file:                    *)
(* src/audit/persistent-storage.ts, the in-memory service it wraps         *)
(* (AuditChain), and the API handler of src/server/routes.ts, which takes  *)
(* that in-memory service from the ledger once, when it is constructed,    *)
(* and shares it with the decision pipeline, the gateway and the agents.   *)
(*                                                                         *)
(* The file is a sequence of lines.  A line is intact when it parses as    *)
(* JSON; a write that stops in the middle of a record leaves a line that   *)
(* does not, and a write that stops just before the line feed leaves a     *)
(* line that does, but that the next write will be glued to.               *)
(*                                                                         *)
(* Every handler here runs without an await, so each is one step; a crash  *)
(* of the process may fall anywhere in the write.                          *)
(***************************************************************************)
EXTENDS AuditChain, FiniteSets

CONSTANTS
  InMemoryWriters,  \* TRUE: components append to the shared service directly
  WriteFaults,      \* how a write may fall short, a subset of the three below
  Damage,           \* TRUE: stored lines may be altered behind the process
  LazyStart,        \* TRUE: a ledger may be used before initialize() is called
  MaxRecords        \* bound: records in a chain, lines in the file

Faults == {"nothing", "fragment", "no_newline"}
WriteOutcomes == {"complete"} \union WriteFaults

ASSUME LedgerAssumption ==
  /\ InMemoryWriters \in BOOLEAN
  /\ WriteFaults \subseteq Faults
  /\ Damage \in BOOLEAN
  /\ LazyStart \in BOOLEAN
  /\ MaxRecords \in Nat

VARIABLES
  exists,       \* the ledger file exists
  file,         \* its lines
  terminated,   \* it is empty or ends with a line feed
  running,      \* the process is up
  initialized,  \* isInitialized
  memory,       \* the chain of the ledger's memoryService
  service,      \* the chain of the handler's auditService
  shared,       \* the two are one object
  gauge,        \* sovereign_audit_ledger_integrity_status
  acknowledged  \* history: the records PersistentAuditLedger.append returned

disk == <<exists, file, terminated>>
process == <<running, initialized, memory, service, shared, gauge>>
vars == <<exists, file, terminated, running, initialized, memory, service,
          shared, gauge, acknowledged>>

Line == [record : AuditRecord, intact : BOOLEAN]

TypeOK ==
  /\ exists \in BOOLEAN
  /\ file \in Seq(Line)
  /\ terminated \in BOOLEAN
  /\ running \in BOOLEAN
  /\ initialized \in BOOLEAN
  /\ memory \in Chain
  /\ service \in Chain
  /\ shared \in BOOLEAN
  /\ gauge \in {0, 1}
  /\ acknowledged \subseteq AuditRecord

-----------------------------------------------------------------------------
\* What initialize() reads.

Records(lines) == [i \in 1 .. Len(lines) |-> lines[i].record]

Parses(lines) == \A i \in 1 .. Len(lines) : lines[i].intact

FileVerifies == Parses(file) /\ VerifyIntegrity(Records(file))

\* initialize() that accepts whatever parses.
InitializeSucceedsUnverified == ~exists \/ Parses(file)

\* The outcome of initialize(), and the chain memoryService then holds when it
\* held m: only a file that parses replaces it, verified or not.
InitializeSucceeds == ~exists \/ FileVerifies

ReplacesService == exists /\ Parses(file)

LoadedOver(m) == IF ReplacesService THEN Records(file) ELSE m

-----------------------------------------------------------------------------
\* The bytes that reach the file when a record is appended to it.

\* A record glued to an unterminated line makes that line unreadable.
Glue(lines) == [lines EXCEPT ![Len(lines)] = [@ EXCEPT !.intact = FALSE]]

NewLine(lines, record, intact) ==
  Append(lines, [record |-> record, intact |-> intact])

WriteLine(record, outcome) ==
  \/ /\ outcome = "nothing"
     /\ exists' \in {exists, TRUE}
     /\ UNCHANGED <<file, terminated>>
  \/ /\ outcome # "nothing"
     /\ exists' = TRUE
     /\ terminated' = (outcome = "complete")
     /\ file' = IF terminated THEN NewLine(file, record, outcome # "fragment")
                              ELSE Glue(file)

-----------------------------------------------------------------------------
\* Start and end of a process.

Init ==
  /\ exists = FALSE
  /\ file = << >>
  /\ terminated = TRUE
  /\ running = FALSE
  /\ initialized = FALSE
  /\ memory = << >>
  /\ service = << >>
  /\ shared = TRUE
  /\ gauge = 0
  /\ acknowledged = {}

\* startSovereignSecurityServer: construct, initialize() whatever it returns,
\* then hand the ledger's service to the API handler.
StartServer ==
  /\ ~running
  /\ running' = TRUE
  /\ initialized' = InitializeSucceeds
  /\ gauge' = IF InitializeSucceeds THEN 1 ELSE 0
  /\ memory' = LoadedOver(<< >>)
  /\ service' = memory'
  /\ shared' = TRUE
  /\ UNCHANGED <<disk, acknowledged>>

\* A handler built around a ledger nobody initialized.
StartUninitialized ==
  /\ LazyStart
  /\ ~running
  /\ running' = TRUE
  /\ UNCHANGED <<disk, initialized, memory, service, shared, gauge, acknowledged>>

\* What a process loses when it dies.
LoseProcess ==
  /\ running' = FALSE
  /\ initialized' = FALSE
  /\ memory' = << >>
  /\ service' = << >>
  /\ shared' = TRUE
  /\ gauge' = 0

Crash ==
  /\ running
  /\ LoseProcess
  /\ UNCHANGED <<disk, acknowledged>>

-----------------------------------------------------------------------------
\* PersistentAuditLedger.append, entered with the two chains as m and s.

HasRoom(m) == Len(m) < MaxRecords /\ Len(file) < MaxRecords

\* The initialize() at its head, when isInitialized is false.
Reopens == ~initialized

OpenedMemory(m) == IF Reopens THEN LoadedOver(m) ELSE m

StillShared == shared /\ ~(Reopens /\ ReplacesService)

Reopen ==
  /\ initialized' = (initialized \/ InitializeSucceeds)
  /\ gauge' = IF Reopens THEN IF InitializeSucceeds THEN 1 ELSE 0 ELSE gauge

\* initialize() finds the file compromised and append throws.
Refuse(m, s) ==
  /\ Reopens /\ ~InitializeSucceeds
  /\ Reopen
  /\ memory' = OpenedMemory(m)
  /\ service' = s
  /\ shared' = StillShared
  /\ UNCHANGED <<disk, running, acknowledged>>

OpenForWriting(m) ==
  /\ initialized \/ InitializeSucceeds
  /\ HasRoom(OpenedMemory(m))

\* An append that swallows what appendFileSync threw.
ReturnedRegardless(record, outcome) == {record}

\* append returns the record unless appendFileSync threw.
Returned(record, outcome) == IF outcome = "complete" THEN {record} ELSE {}

\* The record goes to memory, then to the file; when the write throws, it stays
\* in memory.
Persist(m, s, payload, outcome) ==
  LET next   == AppendRecord(OpenedMemory(m), payload)
      record == next[Len(next)]
  IN  /\ OpenForWriting(m)
      /\ WriteLine(record, outcome)
      /\ Reopen
      /\ memory' = next
      /\ service' = IF StillShared THEN next ELSE s
      /\ shared' = StillShared
      /\ acknowledged' = acknowledged \union Returned(record, outcome)
      /\ UNCHANGED running

\* The process dies during that write, or after it and before it returns.
PersistAndCrash(m, payload, outcome) ==
  LET next == AppendRecord(OpenedMemory(m), payload)
  IN  /\ OpenForWriting(m)
      /\ WriteLine(next[Len(next)], outcome)
      /\ LoseProcess
      /\ UNCHANGED acknowledged

LedgerAppend(m, s, payload) ==
  \/ Refuse(m, s)
  \/ \E outcome \in WriteOutcomes : Persist(m, s, payload, outcome)
  \/ \E outcome \in WriteOutcomes : PersistAndCrash(m, payload, outcome)

-----------------------------------------------------------------------------
\* The handlers.

\* recordAudit: POST /api/v1/audit and the handlers that end in it.
RecordAudit(payload) ==
  /\ running
  /\ LedgerAppend(memory, service, payload)

\* A component that holds the handler's service appends to it alone: gateway,
\* containment agent, compliance, posture.
AppendInMemory(payload) ==
  /\ running
  /\ InMemoryWriters
  /\ Len(service) < MaxRecords
  /\ service' = AppendRecord(service, payload)
  /\ memory' = IF shared THEN service' ELSE memory
  /\ UNCHANGED <<disk, running, initialized, shared, gauge, acknowledged>>

\* POST /api/v1/decisions/evaluate: the pipeline appends to the service, then
\* the handler appends to the ledger.
EvaluateDecision(payload) ==
  /\ running
  /\ InMemoryWriters
  /\ Len(service) < MaxRecords
  /\ LET s == AppendRecord(service, payload)
     IN  LedgerAppend(IF shared THEN s ELSE memory, s, payload)

AlterPayload(lines, i, p) ==
  [lines EXCEPT ![i] = [@ EXCEPT !.record.payload = p]]

\* A stored line is altered behind the process: its payload changes, or it no
\* longer parses.  A line is altered at most once.
DamageLine(i) ==
  /\ Damage
  /\ file[i].intact /\ SelfConsistent(file[i].record)
  /\ \/ \E p \in Payload \ {file[i].record.payload} :
          file' = AlterPayload(file, i, p)
     \/ file' = [file EXCEPT ![i] = [@ EXCEPT !.intact = FALSE]]
  /\ UNCHANGED <<exists, terminated, process, acknowledged>>

Next ==
  \/ StartServer
  \/ StartUninitialized
  \/ Crash
  \/ \E p \in Payload : RecordAudit(p)
  \/ \E p \in Payload : AppendInMemory(p)
  \/ \E p \in Payload : EvaluateDecision(p)
  \/ \E i \in 1 .. Len(file) : DamageLine(i)

Spec == Init /\ [][Next]_vars

-----------------------------------------------------------------------------
\* What the ledger promises.

\* No acknowledged record is lost unnoticed: if a restart would accept the file
\* (initialize() valid), every record append() ever returned is in it, whatever
\* crashed, failed or altered the file in between.
NoSilentLoss ==
  FileVerifies => acknowledged \subseteq {file[i].record : i \in 1 .. Len(file)}

\* While the ledger accepts writes, its own chain and the chain the handler
\* answers /ready and /audit/verify from both verify.
OpenLedgerVerifies ==
  initialized => VerifyIntegrity(memory) /\ VerifyIntegrity(service)

\* A process that finds the file compromised adds nothing to it and
\* acknowledges nothing ("Cannot append to compromised audit ledger").
CompromisedIsFrozen ==
  [][~initialized /\ ~InitializeSucceeds
     => Len(file') = Len(file) /\ acknowledged' = acknowledged]_vars

\* The lines initialize() would accept up to the first one it would not, and
\* whether there is such a line: what an abstract reader sees of the file.
VerifiedUpTo(n) ==
  \A i \in 1 .. n : file[i].intact /\ LinkHolds(Records(file), i)

VerifiedLength ==
  CHOOSE n \in 0 .. Len(file) :
    VerifiedUpTo(n) /\ (n < Len(file) => ~VerifiedUpTo(n + 1))

VerifiedRecords == SubSeq(Records(file), 1, VerifiedLength)

Abstract ==
  INSTANCE TamperEvidentLog WITH log <- VerifiedRecords, sealed <- ~FileVerifies

\* The file implements a tamper-evident log: its verified part grows by one
\* properly linked record at a time, and never again once something broke it.
ImplementsTamperEvidentLog == Abstract!Spec

-----------------------------------------------------------------------------
\* What the documents say of the process around the ledger.

\* A cold restart accepts the file ("Crash Recovery: Cold restart scans and
\* verifies the full hash chain before accepting writes").
RestartAccepts == InitializeSucceeds

\* GET /ready answers 200.
ReportsReady == running /\ VerifyIntegrity(service)

\* A process whose ledger refuses every write because the file is compromised
\* does not answer 200 on /ready ("503 Service Unavailable: Ledger integrity
\* compromised").
NotReadyWhenCompromised ==
  running /\ ~initialized /\ ~InitializeSucceeds => ~ReportsReady

=============================================================================
