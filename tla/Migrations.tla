----------------------------- MODULE Migrations -----------------------------
(***************************************************************************)
(* migrate() (migrations.py), run by Store.__init__ in several processes   *)
(* that open the same file, each with the build it was installed with.     *)
(*                                                                         *)
(* Migration i of MIGRATIONS is the number i; what it creates is one       *)
(* object, i.  The version is read once, before any transaction; then each *)
(* migration and its user_version bump are one deferred transaction:       *)
(* BEGIN locks nothing, a statement that only reads takes a snapshot, the  *)
(* first statement that writes takes the write lock.  SQLite (WAL) waits   *)
(* for the lock, up to busy_timeout, only in a transaction that has read   *)
(* nothing yet: after a read, a lock held by another connection or a       *)
(* commit since the snapshot is an error at once.                          *)
(***************************************************************************)
EXTENDS Integers

CONSTANTS
    Openers,     \* processes that open the file
    Last,        \* the number of migrations of the newest build
    Latest,      \* [Openers -> 0..Last]: LATEST in each opener's build
    ReadFirst,   \* migrations whose first statement is PRAGMA table_xinfo
    NoOne        \* nobody holds the write lock

ASSUME MigrationsAssumption ==
    /\ Last \in Nat
    /\ Latest \in [Openers -> 0..Last]
    /\ NoOne \notin Openers

VARIABLES
    version,    \* PRAGMA user_version, durable
    applied,    \* the migrations whose objects exist, durable
    writer,     \* the opener that holds the write lock
    pc,         \* where each opener is
    at,         \* the migration it is at; before the loop, the version read
    snapshot,   \* its read snapshot: none, fresh, or stale (others committed)
    seen        \* the objects in its cached copy of the schema

vars == <<version, applied, writer, pc, at, snapshot, seen>>

Numbers == 1..Last
Raised  == {"locked", "timeout", "failed", "too new"}
InTxn   == {"apply", "write", "commit"}
PCs     == {"closed", "connected", "loop", "open"} \cup InTxn \cup Raised

Init ==
    /\ version = 0
    /\ applied = {}
    /\ writer = NoOne
    /\ pc = [p \in Openers |-> "closed"]
    /\ at = [p \in Openers |-> 0]
    /\ snapshot = [p \in Openers |-> "none"]
    /\ seen = [p \in Openers |-> {}]

-----------------------------------------------------------------------------
(* sqlite3.connect and PRAGMA journal_mode, which reads the schema. *)
Connect(p) ==
    /\ pc[p] = "closed"
    /\ pc' = [pc EXCEPT ![p] = "connected"]
    /\ seen' = [seen EXCEPT ![p] = applied]
    /\ UNCHANGED <<version, applied, writer, at, snapshot>>

ReadVersionPlusOne(p) ==    \* mutant: MIGRATIONS[current + 1:]
    /\ pc[p] = "connected"
    /\ at' = [at EXCEPT ![p] = IF version < Latest[p] THEN version + 1 ELSE version]
    /\ pc' = [pc EXCEPT ![p] = IF version > Latest[p] THEN "too new" ELSE "loop"]
    /\ UNCHANGED <<version, applied, writer, snapshot, seen>>

(* `current` is read outside any transaction, once. *)
ReadVersion(p) ==
    /\ pc[p] = "connected"
    /\ at' = [at EXCEPT ![p] = version]
    /\ pc' = [pc EXCEPT ![p] = IF version > Latest[p] THEN "too new" ELSE "loop"]
    /\ UNCHANGED <<version, applied, writer, snapshot, seen>>

OneTooFar(p)   == at[p] <= Latest[p]       \* mutant of IsPending
(* m.version > current, for a migration this build has. *)
IsPending(p) == at[p] < Latest[p]

(* The head of the loop: BEGIN for the next migration, or return. *)
Begin(p) ==
    /\ pc[p] = "loop"
    /\ IF IsPending(p)
       THEN /\ at' = [at EXCEPT ![p] = at[p] + 1]
            /\ pc' = [pc EXCEPT ![p] = "apply"]
       ELSE /\ pc' = [pc EXCEPT ![p] = "open"]
            /\ UNCHANGED at
    /\ UNCHANGED <<version, applied, writer, snapshot, seen>>

(* The first statement of m.apply reads when it is the column check, or an  *)
(* IF NOT EXISTS on an object the cached schema already has.                *)
StartsByReading(p) == at[p] \in ReadFirst \/ at[p] \in seen[p]

ApplyReading(p) ==
    /\ pc[p] = "apply" /\ StartsByReading(p)
    /\ pc' = [pc EXCEPT ![p] = "write"]
    /\ snapshot' = [snapshot EXCEPT ![p] = "fresh"]
    /\ seen' = [seen EXCEPT ![p] = applied]
    /\ UNCHANGED <<version, applied, writer, at>>

ApplyWriting(p) ==
    /\ pc[p] = "apply" /\ ~StartsByReading(p)
    /\ writer = NoOne
    /\ writer' = p
    /\ pc' = [pc EXCEPT ![p] = "write"]
    /\ snapshot' = [snapshot EXCEPT ![p] = "fresh"]
    /\ seen' = [seen EXCEPT ![p] = applied]
    /\ UNCHANGED <<version, applied, at>>

(* Rollback, then the exception leaves Store.__init__, which closes. *)
Raise(p, why) ==
    /\ pc' = [pc EXCEPT ![p] = why]
    /\ writer' = IF writer = p THEN NoOne ELSE writer
    /\ snapshot' = [snapshot EXCEPT ![p] = "none"]
    /\ UNCHANGED <<version, applied, at, seen>>

WaitsWithoutLimit(p) == FALSE /\ Raise(p, "timeout")    \* mutant of BusyTimeout

BusyTimeout(p) ==
    /\ pc[p] = "apply" /\ ~StartsByReading(p)
    /\ writer # NoOne
    /\ Raise(p, "timeout")

(* The next statement that writes, at the latest PRAGMA user_version = m. *)
CanWrite(p) == writer = p \/ (writer = NoOne /\ snapshot[p] = "fresh")

SetVersion(p) ==
    /\ pc[p] = "write"
    /\ CanWrite(p)
    /\ writer' = p
    /\ pc' = [pc EXCEPT ![p] = "commit"]
    /\ UNCHANGED <<version, applied, at, snapshot, seen>>

SkipsWhenLocked(p) ==    \* mutant: takes the lock for somebody else's migration
    /\ pc[p] = "write"
    /\ ~CanWrite(p)
    /\ Raise(p, "loop")

LockedAtOnce(p) ==
    /\ pc[p] = "write"
    /\ ~CanWrite(p)
    /\ Raise(p, "locked")

(* conn.commit(): the objects and the version become durable together. *)
Commit(p) ==
    /\ pc[p] = "commit"
    /\ version' = at[p]
    /\ applied' = applied \cup {at[p]}
    /\ writer' = NoOne
    /\ pc' = [pc EXCEPT ![p] = "loop"]
    /\ snapshot' = [q \in Openers |-> IF q = p THEN "none"
                                      ELSE IF snapshot[q] = "fresh" THEN "stale"
                                      ELSE snapshot[q]]
    /\ seen' = [seen EXCEPT ![p] = applied \cup {at[p]}]
    /\ UNCHANGED at

(* Any other error inside the try block. *)
ApplyFails(p) == pc[p] \in InTxn /\ Raise(p, "failed")

(* The process dies, or the connection is closed; it may open again. *)
Close(p) == pc[p] # "closed" /\ Raise(p, "closed")

Step(p) ==
    \/ ReadVersion(p)
    \/ Begin(p)
    \/ ApplyReading(p)
    \/ ApplyWriting(p)
    \/ BusyTimeout(p)
    \/ SetVersion(p)
    \/ LockedAtOnce(p)
    \/ Commit(p)

Next == \E p \in Openers : Step(p) \/ Connect(p) \/ ApplyFails(p) \/ Close(p)

(* A process that runs keeps running; nobody has to open or to close. *)
Fairness == \A p \in Openers : WF_vars(Step(p))

Spec == Init /\ [][Next]_vars /\ Fairness

-----------------------------------------------------------------------------
(* The version, the lock and every opener's place have their types. *)
TypeOK ==
    /\ version \in 0..Last
    /\ applied \in SUBSET Numbers
    /\ writer \in Openers \cup {NoOne}
    /\ pc \in [Openers -> PCs]
    /\ at \in [Openers -> 0..Last]
    /\ snapshot \in [Openers -> {"none", "fresh", "stale"}]
    /\ seen \in [Openers -> SUBSET Numbers]

(***************************************************************************)
(* The version is never ahead of the schema: whatever the openers do to    *)
(* one another, and wherever one of them dies, every migration up to       *)
(* user_version has been applied ("a crash never leaves a half-applied     *)
(* version", migrations.py:115-116).                                       *)
(***************************************************************************)
VersionCovered == \A m \in Numbers : m <= version => m \in applied

(***************************************************************************)
(* A Store whose constructor returned has every object its build needs,    *)
(* although it looked at the version only once and the version may since   *)
(* have gone down.                                                         *)
(***************************************************************************)
OpenHasSchema ==
    \A p \in Openers : pc[p] = "open" => \A m \in Numbers : m <= Latest[p] => m \in applied

(***************************************************************************)
(* Openers do not wait for one another for ever: an opener that has        *)
(* connected returns or raises, unless its process goes away.              *)
(***************************************************************************)
Settled(p) == pc[p] \in Raised \cup {"open", "closed"}

EveryOpenSettles == \A p \in Openers : (pc[p] = "connected") ~> Settled(p)

(***************************************************************************)
(* What docs/specs/completed/schema-migrations.md:100 says of concurrent   *)
(* openers: the second one sees the bumped version and skips, so           *)
(* user_version only grows.                                                *)
(***************************************************************************)
VersionNeverDecreases == [][version' >= version]_version

(***************************************************************************)
(* What store.py:21-23 says of a second writer: it is made to wait up to   *)
(* busy_timeout, not to fail immediately.                                  *)
(***************************************************************************)
NeverLockedAtOnce == \A p \in Openers : pc[p] # "locked"
=============================================================================
