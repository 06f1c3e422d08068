-------------------------- MODULE MigrationsProofs --------------------------
(***************************************************************************)
(* The safety of concurrent opens, for any number of openers, any builds   *)
(* and any list of migrations.                                             *)
(*                                                                         *)
(* VersionCovered is not inductive: Commit sets the version to a number    *)
(* the opener chose when it entered the loop, possibly long ago.  What     *)
(* makes it true is that an opener in the loop has behind it every         *)
(* migration up to the one it is at (Behind), which a commit of another    *)
(* opener cannot undo because objects are never dropped.                   *)
(***************************************************************************)
EXTENDS Migrations, TLAPS

(* The write lock is only ever held over a snapshot nobody has overtaken. *)
NoLostUpdate == \A p \in Openers : writer = p => snapshot[p] = "fresh"

(* Everything up to k has been applied. *)
UpTo(k) == \A m \in Numbers : m <= k => m \in applied

Behind ==
    \A p \in Openers :
        /\ pc[p] = "loop" => at[p] <= Latest[p] /\ UpTo(at[p])
        /\ pc[p] \in InTxn => /\ at[p] \in Numbers /\ at[p] <= Latest[p]
                              /\ UpTo(at[p] - 1)

WriterInTxn ==
    \A p \in Openers : /\ writer = p => pc[p] \in {"write", "commit"}
                       /\ pc[p] = "commit" => writer = p

IInv == /\ TypeOK
        /\ VersionCovered
        /\ OpenHasSchema
        /\ NoLostUpdate
        /\ Behind
        /\ WriterInTxn

LEMMA InitIInv == Init => IInv
  BY MigrationsAssumption
  DEF Init, IInv, TypeOK, VersionCovered, OpenHasSchema, NoLostUpdate, Behind,
      WriterInTxn, UpTo, Numbers, PCs, InTxn, Raised

(* Raise, the common end of three actions, only ever gives up the lock. *)
LEMMA RaisePreserves ==
  ASSUME IInv, NEW p \in Openers, NEW why \in Raised \cup {"closed"}, Raise(p, why)
  PROVE  IInv'
<1> USE MigrationsAssumption DEF Raise, Raised, InTxn
<1>1. TypeOK'
  BY DEF IInv, TypeOK, PCs
<1>2. \A q \in Openers : q # p => pc'[q] = pc[q] /\ snapshot'[q] = snapshot[q]
  BY DEF IInv, TypeOK
<1>3. pc'[p] = why
  BY DEF IInv, TypeOK
<1>4. VersionCovered'
  BY DEF IInv, VersionCovered
<1>5. OpenHasSchema'
  BY <1>2, <1>3 DEF IInv, OpenHasSchema
<1>6. NoLostUpdate'
  BY <1>2, <1>3 DEF IInv, NoLostUpdate
<1>7. Behind'
  BY <1>2, <1>3 DEF IInv, Behind, UpTo
<1>8. WriterInTxn'
  BY <1>2, <1>3 DEF IInv, WriterInTxn
<1> QED BY <1>1, <1>4, <1>5, <1>6, <1>7, <1>8 DEF IInv

LEMMA ConnectPreserves ==
  ASSUME IInv, NEW p \in Openers, Connect(p)
  PROVE  IInv'
<1> USE DEF Connect, InTxn
<1>1. TypeOK'
  BY DEF IInv, TypeOK, PCs, InTxn
<1>2. \A q \in Openers : q # p => pc'[q] = pc[q]
  BY DEF IInv, TypeOK
<1>3. pc'[p] = "connected" /\ pc[p] = "closed"
  BY DEF IInv, TypeOK
<1>4. VersionCovered' /\ NoLostUpdate'
  BY DEF IInv, VersionCovered, NoLostUpdate
<1>5. OpenHasSchema'
  BY <1>2, <1>3 DEF IInv, OpenHasSchema
<1>6. Behind'
  BY <1>2, <1>3 DEF IInv, Behind, UpTo
<1>7. WriterInTxn'
  BY <1>2, <1>3 DEF IInv, WriterInTxn
<1> QED BY <1>1, <1>4, <1>5, <1>6, <1>7 DEF IInv

(* Entering the loop: what the version says has been applied. *)
LEMMA ReadVersionPreserves ==
  ASSUME IInv, NEW p \in Openers, ReadVersion(p)
  PROVE  IInv'
<1>1. TypeOK'
  BY MigrationsAssumption DEF ReadVersion, IInv, TypeOK, PCs, Raised
<1>2. \A q \in Openers : q # p => pc'[q] = pc[q] /\ at'[q] = at[q]
  BY DEF ReadVersion, IInv, TypeOK
<1>3. /\ pc[p] = "connected"
      /\ at'[p] = version
      /\ pc'[p] \in {"too new", "loop"}
      /\ pc'[p] = "loop" => ~(version > Latest[p])
  BY DEF ReadVersion, IInv, TypeOK
<1>4. version \in Nat /\ Latest[p] \in Nat
  BY MigrationsAssumption DEF IInv, TypeOK
<1>5. UNCHANGED <<version, applied, writer, snapshot>>
  BY DEF ReadVersion
<1>6. VersionCovered' /\ NoLostUpdate'
  BY <1>5 DEF IInv, VersionCovered, NoLostUpdate
<1>7. OpenHasSchema'
  BY <1>2, <1>3, <1>5 DEF IInv, OpenHasSchema
<1>8. Behind'
  <2>1. pc'[p] = "loop" => version <= Latest[p]
    BY <1>3, <1>4
  <2>2. \A m \in Numbers : m <= version => m \in applied
    BY DEF IInv, VersionCovered
  <2> QED BY <1>2, <1>3, <1>5, <2>1, <2>2 DEF IInv, Behind, UpTo, InTxn
<1>9. WriterInTxn'
  BY <1>2, <1>3, <1>5 DEF IInv, WriterInTxn
<1> QED BY <1>1, <1>6, <1>7, <1>8, <1>9 DEF IInv

(* The head of the loop: whoever is past its last migration has them all. *)
LEMMA BeginPreserves ==
  ASSUME IInv, NEW p \in Openers, Begin(p)
  PROVE  IInv'
<1>1. at[p] \in Nat /\ Latest[p] \in Nat /\ Latest[p] <= Last /\ Last \in Nat
  BY MigrationsAssumption DEF IInv, TypeOK
<1>2. pc[p] = "loop" /\ at[p] <= Latest[p] /\ UpTo(at[p])
  BY DEF Begin, IInv, Behind
<1>3. UNCHANGED <<version, applied, writer, snapshot, seen>>
  BY DEF Begin
<1>4. CASE at[p] < Latest[p]
  <2>1. at' = [at EXCEPT ![p] = at[p] + 1] /\ pc' = [pc EXCEPT ![p] = "apply"]
    BY <1>4 DEF Begin, IsPending
  <2>2. at[p] + 1 \in Numbers /\ at[p] + 1 \in 0..Last /\ at[p] + 1 <= Latest[p]
    BY <1>1, <1>4 DEF Numbers
  <2>3. TypeOK'
    BY <2>1, <2>2, <1>3 DEF IInv, TypeOK, PCs, InTxn
  <2>4. \A q \in Openers : q # p => pc'[q] = pc[q] /\ at'[q] = at[q]
    BY <2>1 DEF IInv, TypeOK
  <2>5. pc'[p] = "apply" /\ at'[p] = at[p] + 1
    BY <2>1 DEF IInv, TypeOK
  <2>6. VersionCovered' /\ NoLostUpdate'
    BY <1>3 DEF IInv, VersionCovered, NoLostUpdate
  <2>7. OpenHasSchema'
    BY <2>4, <2>5, <1>3 DEF IInv, OpenHasSchema
  <2>8. WriterInTxn'
    BY <2>4, <2>5, <1>2, <1>3 DEF IInv, WriterInTxn
  <2>9. (at[p] + 1) - 1 = at[p]
    BY <1>1
  <2>10. Behind'
    BY <2>2, <2>4, <2>5, <2>9, <1>2, <1>3 DEF IInv, Behind, UpTo, InTxn
  <2> QED BY <2>3, <2>6, <2>7, <2>8, <2>10 DEF IInv
<1>5. CASE ~(at[p] < Latest[p])
  <2>1. at' = at /\ pc' = [pc EXCEPT ![p] = "open"]
    BY <1>5 DEF Begin, IsPending
  <2>2. at[p] = Latest[p]
    BY <1>1, <1>2, <1>5
  <2>3. TypeOK'
    BY <2>1, <1>3 DEF IInv, TypeOK, PCs
  <2>4. \A q \in Openers : q # p => pc'[q] = pc[q]
    BY <2>1 DEF IInv, TypeOK
  <2>5. pc'[p] = "open"
    BY <2>1 DEF IInv, TypeOK
  <2>6. VersionCovered' /\ NoLostUpdate'
    BY <1>3 DEF IInv, VersionCovered, NoLostUpdate
  <2>7. OpenHasSchema'
    BY <2>2, <2>4, <2>5, <1>2, <1>3 DEF IInv, OpenHasSchema, UpTo
  <2>8. WriterInTxn'
    BY <2>4, <2>5, <1>2, <1>3 DEF IInv, WriterInTxn
  <2>9. Behind'
    BY <2>1, <2>4, <2>5, <1>3 DEF IInv, Behind, UpTo, InTxn
  <2> QED BY <2>3, <2>6, <2>7, <2>8, <2>9 DEF IInv
<1> QED BY <1>4, <1>5

(* A statement that goes through: the opener is at the same migration,     *)
(* further in its transaction, with or without the write lock.             *)
LEMMA StatementPreserves ==
  ASSUME IInv, NEW p \in Openers,
         pc[p] \in {"apply", "write"},
         NEW next \in {"write", "commit"}, pc' = [pc EXCEPT ![p] = next],
         writer' = p \/ (writer' = writer /\ next = "write"),
         writer' = p => writer \in {NoOne, p},
         snapshot' = [snapshot EXCEPT ![p] = "fresh"],
         seen' \in [Openers -> SUBSET Numbers],
         UNCHANGED <<version, applied, at>>
  PROVE  IInv'
<1>1. TypeOK'
  BY DEF IInv, TypeOK, PCs, InTxn
<1>2. \A q \in Openers : q # p => pc'[q] = pc[q] /\ snapshot'[q] = snapshot[q]
  BY DEF IInv, TypeOK
<1>3. pc'[p] = next /\ snapshot'[p] = "fresh"
  BY DEF IInv, TypeOK
<1>4. VersionCovered'
  BY DEF IInv, VersionCovered
<1>5. OpenHasSchema'
  BY <1>2, <1>3 DEF IInv, OpenHasSchema
<1>6. NoLostUpdate'
  BY <1>2, <1>3 DEF IInv, NoLostUpdate
<1>7. Behind'
  BY <1>2, <1>3 DEF IInv, Behind, UpTo, InTxn
<1>8. WriterInTxn'
  BY <1>2, <1>3, MigrationsAssumption DEF IInv, WriterInTxn
<1> QED BY <1>1, <1>4, <1>5, <1>6, <1>7, <1>8 DEF IInv

(* Commit: the version and the object it stands for, together.  Another    *)
(* opener's snapshot may turn stale, but then it does not hold the lock.   *)
LEMMA CommitPreserves ==
  ASSUME IInv, NEW p \in Openers, Commit(p)
  PROVE  IInv'
<1>1. /\ at[p] \in Numbers /\ at[p] <= Latest[p] /\ UpTo(at[p] - 1)
      /\ pc[p] = "commit" /\ writer = p
  BY DEF Commit, IInv, Behind, InTxn, WriterInTxn
<1>2. /\ version' = at[p]
      /\ applied' = applied \cup {at[p]}
      /\ writer' = NoOne
      /\ at' = at
  BY DEF Commit
<1>3. at[p] \in Nat /\ at[p] \in 0..Last
  BY DEF IInv, TypeOK
<1>4. UpTo(at[p])'
  BY <1>1, <1>2, <1>3 DEF UpTo, Numbers
<1>5. TypeOK'
  BY <1>1, <1>3 DEF Commit, IInv, TypeOK, PCs, Numbers
<1>6. \A q \in Openers : q # p => pc'[q] = pc[q]
  BY DEF Commit, IInv, TypeOK
<1>7. pc'[p] = "loop"
  BY DEF Commit, IInv, TypeOK
<1>8. VersionCovered'
  BY <1>2, <1>4 DEF VersionCovered, UpTo
<1>9. OpenHasSchema'
  BY <1>2, <1>6, <1>7 DEF IInv, OpenHasSchema
<1>10. NoLostUpdate'
  BY <1>2, MigrationsAssumption DEF NoLostUpdate
<1>11. Behind'
  <2>1. \A q \in Openers : (pc[q] = "loop" => UpTo(at[q])') /\ (pc[q] \in InTxn => UpTo(at[q] - 1)')
    BY <1>2 DEF IInv, Behind, UpTo
  <2> QED BY <1>1, <1>2, <1>4, <1>6, <1>7, <2>1 DEF IInv, Behind, UpTo, InTxn
<1>12. WriterInTxn'
  BY <1>1, <1>2, <1>6, <1>7, MigrationsAssumption DEF IInv, WriterInTxn
<1> QED BY <1>5, <1>8, <1>9, <1>10, <1>11, <1>12 DEF IInv

LEMMA NextIInv == IInv /\ [Next]_vars => IInv'
<1> SUFFICES ASSUME IInv, [Next]_vars PROVE IInv'
  OBVIOUS
<1>1. CASE UNCHANGED vars
  BY <1>1 DEF vars, IInv, TypeOK, VersionCovered, OpenHasSchema, NoLostUpdate,
              Behind, WriterInTxn, UpTo
<1>2. ASSUME NEW p \in Openers, Step(p) PROVE IInv'
  <2>1. CASE ReadVersion(p)
    BY <2>1, ReadVersionPreserves
  <2>2. CASE Begin(p)
    BY <2>2, BeginPreserves
  <2>3. CASE ApplyReading(p)
    <3>1. writer # p
      BY <2>3 DEF ApplyReading, IInv, WriterInTxn
    <3>2. seen' \in [Openers -> SUBSET Numbers]
      BY <2>3 DEF ApplyReading, IInv, TypeOK
    <3>3. /\ pc[p] \in {"apply", "write"}
          /\ pc' = [pc EXCEPT ![p] = "write"]
          /\ snapshot' = [snapshot EXCEPT ![p] = "fresh"]
          /\ UNCHANGED <<version, applied, writer, at>>
      BY <2>3 DEF ApplyReading
    <3> QED BY <3>1, <3>2, <3>3, StatementPreserves
  <2>4. CASE ApplyWriting(p)
    <3>1. seen' \in [Openers -> SUBSET Numbers]
      BY <2>4 DEF ApplyWriting, IInv, TypeOK
    <3>2. /\ pc[p] \in {"apply", "write"}
          /\ pc' = [pc EXCEPT ![p] = "write"]
          /\ writer = NoOne /\ writer' = p
          /\ snapshot' = [snapshot EXCEPT ![p] = "fresh"]
          /\ UNCHANGED <<version, applied, at>>
      BY <2>4 DEF ApplyWriting
    <3> QED BY <3>1, <3>2, StatementPreserves
  <2>5. CASE BusyTimeout(p)
    BY <2>5, RaisePreserves DEF BusyTimeout, Raised
  <2>6. CASE SetVersion(p)
    <3>1. snapshot[p] = "fresh" /\ writer \in {NoOne, p}
      BY <2>6 DEF SetVersion, CanWrite, IInv, NoLostUpdate
    <3>2. snapshot' = [snapshot EXCEPT ![p] = "fresh"]
      BY <2>6, <3>1 DEF SetVersion, IInv, TypeOK
    <3>3. seen' \in [Openers -> SUBSET Numbers]
      BY <2>6 DEF SetVersion, IInv, TypeOK
    <3>4. /\ pc[p] \in {"apply", "write"}
          /\ pc' = [pc EXCEPT ![p] = "commit"]
          /\ writer' = p
          /\ UNCHANGED <<version, applied, at>>
      BY <2>6 DEF SetVersion
    <3> QED BY <3>1, <3>2, <3>3, <3>4, StatementPreserves
  <2>7. CASE LockedAtOnce(p)
    BY <2>7, RaisePreserves DEF LockedAtOnce, Raised
  <2>8. CASE Commit(p)
    BY <2>8, CommitPreserves
  <2> QED BY <1>2, <2>1, <2>2, <2>3, <2>4, <2>5, <2>6, <2>7, <2>8 DEF Step
<1>3. ASSUME NEW p \in Openers, Connect(p) PROVE IInv'
  BY <1>3, ConnectPreserves
<1>4. ASSUME NEW p \in Openers, ApplyFails(p) PROVE IInv'
  BY <1>4, RaisePreserves DEF ApplyFails, Raised
<1>5. ASSUME NEW p \in Openers, Close(p) PROVE IInv'
  BY <1>5, RaisePreserves DEF Close
<1> QED BY <1>1, <1>2, <1>3, <1>4, <1>5 DEF Next

(***************************************************************************)
(* migrate() keeps its variables in their types.                           *)
(***************************************************************************)
THEOREM TypeCorrect == Spec => []TypeOK
<1>1. IInv => TypeOK
  BY DEF IInv
<1> QED BY InitIInv, NextIInv, <1>1, PTL DEF Spec

(***************************************************************************)
(* The durable user_version never claims a migration that has not been     *)
(* applied, whoever opens, fails or dies, in whatever order                *)
(* (migrations.py:115-135).                                                *)
(***************************************************************************)
THEOREM VersionIsCovered == Spec => []VersionCovered
<1>1. IInv => VersionCovered
  BY DEF IInv
<1> QED BY InitIInv, NextIInv, <1>1, PTL DEF Spec

(***************************************************************************)
(* A Store whose constructor returned has the schema of its build          *)
(* (store.py:24-40), although `current` was read once, before the loop.    *)
(***************************************************************************)
THEOREM OpenStoreHasSchema == Spec => []OpenHasSchema
<1>1. IInv => OpenHasSchema
  BY DEF IInv
<1> QED BY InitIInv, NextIInv, <1>1, PTL DEF Spec
=============================================================================
