-------------------------- MODULE Admission_proofs --------------------------
(***************************************************************************)
(* Proofs about HostAccess and Admission, for every set of PINs, every     *)
(* free failures and locks, and any number of attempts.                    *)
(***************************************************************************)
EXTENDS Admission, SequenceTheorems, TLAPS

-----------------------------------------------------------------------------
(* The lock of a wrong PIN *)

LEMMA LockBounds ==
    ASSUME NEW n \in Nat, n >= FreeFailures
    PROVE  /\ LockFor(n) \in Nat
           /\ BaseLock <= LockFor(n)
           /\ LockFor(n) <= MaxLock
  <1> DEFINE k == Least(n - FreeFailures, 10) + 1
  <1>1. k \in 1..11
    BY LockAssumption DEF Least
  <1>2. Shifted[k] \in Nat /\ Shifted[k] >= 1
    BY <1>1 DEF Shifted
  <1>3. BaseLock * Shifted[k] \in Nat /\ BaseLock <= BaseLock * Shifted[k]
    BY <1>2, LockAssumption
  <1> QED
    BY <1>3, LockAssumption DEF LockFor, Least

-----------------------------------------------------------------------------
(* HostAccess: types *)

LEMMA ActivePinType == TypeOK => ActivePin \in Pins \cup {None}
  BY DEF TypeOK, ActivePin

\* What is kept in memory and what is in the file.
LiveType == [pid : Nat, status : {"listening"} \cup Session, lockedUntil : Nat]
FileType == [present : BOOLEAN, pid : Nat,
             status : {"listening"} \cup Session, lockedUntil : Nat]
StateTypes == live \in LiveType /\ file \in FileType /\ recorded \in BOOLEAN /\ unwritten \in Nat

\* A write keeps the types, whether it succeeds or not.
LEMMA WriteTypes ==
    ASSUME file \in FileType, unwritten \in Nat, live' \in LiveType, Write(live')
    PROVE  StateTypes'
  <1>0. PICK l \in LiveType : l = live'
    OBVIOUS
  <1>1. FileOf(l) \in FileType
    BY DEF FileOf, FileType, LiveType
  <1>2. CASE file' = FileOf(live') /\ recorded' = TRUE /\ unwritten' = unwritten
    <2>1. file' = FileOf(l) /\ recorded' \in BOOLEAN /\ unwritten' \in Nat
      BY <1>0, <1>2
    <2>2. file' \in FileType
      BY <1>1, <2>1
    <2> QED
      BY <1>0, <2>1, <2>2 DEF StateTypes
  <1>3. CASE Keep
    <2>1. file' = file /\ recorded' \in BOOLEAN
      BY <1>3, Zenon DEF Keep
    <2>2. unwritten' = unwritten + 1
      BY <1>3, Zenon DEF Keep
    <2>3. unwritten' \in Nat
      BY <2>2
    <2> QED
      BY <1>0, <2>1, <2>3 DEF StateTypes
  <1> QED
    BY <1>2, <1>3 DEF Write

LEMMA PublishTypes ==
    ASSUME StateTypes, NEW status \in {"listening"} \cup Session, NEW end \in Nat,
           Publish(status, end)
    PROVE  StateTypes'
  <1>1. live' \in LiveType
    BY DEF Publish, StateTypes, LiveType
  <1> QED
    BY <1>1, WriteTypes DEF Publish, StateTypes

\* Every variable of the host keeps its type.
THEOREM TypeCorrect == Spec => []TypeOK
  <1>1. Init => TypeOK
    <2> SUFFICES ASSUME Init PROVE TypeOK
      OBVIOUS
    <2>1. fixedPin \in Pins \cup {None}
      BY PinAssumption DEF Init
    <2>2. StateTypes
      <3>1. live = [pid |-> 1, status |-> "listening", lockedUntil |-> 0] /\ live \in LiveType
        BY DEF Init, LiveType
      <3>2. FileOf(live) \in FileType
        BY <3>1 DEF FileOf, FileType, LiveType
      <3>3. file = [FileOf(live) EXCEPT !.present = recorded] /\ recorded = (unwritten = 0) /\ unwritten \in Nat
        BY DEF Init
      <3>4. file \in FileType
        BY <3>2, <3>3 DEF FileType
      <3> QED
        BY <3>1, <3>3, <3>4 DEF StateTypes
    <2>3. settings \in [pin : Pins \cup {None}, unattended : BOOLEAN]
      BY DEF Init
    <2> QED
      BY <2>1, <2>2, <2>3, LockAssumption DEF Init, TypeOK, Phase, StateTypes, LiveType, FileType
  <1>2. TypeOK /\ [Next]_vars => TypeOK'
    <2> SUFFICES ASSUME TypeOK, [Next]_vars PROVE TypeOK'
      OBVIOUS
    <2> USE DEF TypeOK, processVars, clientVars, lockVars, settingsVars, stateVars, Phase, Handshake, Session
    <2>s. StateTypes
      BY DEF StateTypes, LiveType, FileType
    <2>t. ASSUME StateTypes'
          PROVE  /\ live' \in [pid : Nat, status : {"listening"} \cup Session, lockedUntil : Nat]
                 /\ file' \in [present : BOOLEAN, pid : Nat,
                               status : {"listening"} \cup Session, lockedUntil : Nat]
                 /\ recorded' \in BOOLEAN
                 /\ unwritten' \in Nat
      BY <2>t DEF StateTypes, LiveType, FileType
    <2>e. ASSUME EndClient PROVE StateTypes'
      <3>1. live.lockedUntil \in Nat
        OBVIOUS
      <3> QED
        BY <2>s, <2>e, <3>1, PublishTypes DEF EndClient
    <2>1. CASE Connect
      BY <2>1, ActivePinType DEF Connect
    <2>2. CASE ReadPin
      BY <2>2, ActivePinType DEF ReadPin
    <2>3. CASE Deny
      BY <2>3, <2>e, <2>t DEF Deny, EndClient, NoClient
    <2>4. CASE StartExchange
      BY <2>4 DEF StartExchange
    <2>5. CASE WrongPin
      <3>1. failures' \in Nat
        BY <2>5 DEF WrongPin
      <3>2. CASE failures' < FreeFailures
        BY <2>5, <3>1, <3>2 DEF WrongPin
      <3>3. CASE ~ failures' < FreeFailures
        <4>1. failures' >= FreeFailures
          BY <3>1, <3>3, LockAssumption
        <4>2. until' \in Nat
          BY <2>5, <3>1, <3>3, <4>1, LockBounds DEF WrongPin
        <4>3. Publish(live.status, until')
          BY <2>5, <3>1, <3>3 DEF WrongPin
        <4>4. live.status \in {"listening"} \cup Session
          OBVIOUS
        <4>5. StateTypes'
          BY <2>s, <4>2, <4>3, <4>4, PublishTypes
        <4> QED
          BY <2>5, <3>1, <4>2, <4>5, <2>t DEF WrongPin
      <3> QED
        BY <3>2, <3>3
    <2>6. CASE DenyWrongPin
      BY <2>6, <2>e, <2>t DEF DenyWrongPin, EndClient, NoClient
    <2>7. CASE RightPin
      <3>1. Publish(live.status, 0) /\ live.status \in {"listening"} \cup Session
        BY <2>7 DEF RightPin
      <3>2. StateTypes'
        BY <2>s, <3>1, PublishTypes
      <3> QED
        BY <2>7, <3>2, <2>t DEF RightPin
    <2>8. CASE Admit
      <3>1. Publish("sharing", live.lockedUntil) /\ live.lockedUntil \in Nat
        BY <2>8 DEF Admit
      <3>2. StateTypes'
        BY <2>s, <3>1, PublishTypes
      <3> QED
        BY <2>8, <3>2, <2>t DEF Admit
    <2>9. CASE HandshakeFails
      BY <2>9, <2>e, <2>t DEF HandshakeFails, EndClient, NoClient
    <2>10. CASE CaptureOpens
      <3>1. Publish("connected", live.lockedUntil) /\ live.lockedUntil \in Nat
        BY <2>10 DEF CaptureOpens
      <3>2. StateTypes'
        BY <2>s, <3>1, PublishTypes
      <3> QED
        BY <2>10, <3>2, <2>t DEF CaptureOpens
    <2>11. CASE SessionEnds
      BY <2>11, <2>e, <2>t DEF SessionEnds, EndClient, NoClient
    <2>12. CASE Disconnect
      BY <2>12 DEF Disconnect
    <2>13. CASE AskToStop
      BY <2>13 DEF AskToStop
    <2>14. CASE Stop
      <3>1. live' = live /\ live \in LiveType /\ file \in FileType /\ unwritten \in Nat
        BY <2>s, <2>14 DEF Stop, StateTypes
      <3>4. StateTypes'
        <4>1. CASE file' = [file EXCEPT !.present = FALSE] /\ recorded' = TRUE /\ unwritten' = unwritten
          <5>1. file' \in FileType
            BY <3>1, <4>1 DEF FileType
          <5> QED
            BY <3>1, <4>1, <5>1 DEF StateTypes
        <4>2. CASE Keep
          <5>1. file' = file /\ recorded' \in BOOLEAN /\ unwritten' = unwritten + 1
            BY <4>2, Zenon DEF Keep
          <5>2. unwritten' \in Nat
            BY <3>1, <5>1
          <5> QED
            BY <3>1, <5>1, <5>2 DEF StateTypes
        <4>3. \/ file' = [file EXCEPT !.present = FALSE] /\ recorded' = TRUE /\ unwritten' = unwritten
              \/ Keep
          BY <2>14, Zenon DEF Stop
        <4> QED
          BY <4>1, <4>2, <4>3
      <3>5. running' = FALSE
        BY <2>14 DEF Stop
      <3> QED
        BY <2>14, <3>4, <3>5, <2>t DEF Stop
    <2>15. CASE Crash
      BY <2>15 DEF Crash, NoClient
    <2>16. CASE Start
      <3>1. fixedPin' \in Pins \cup {None}
        BY <2>16, PinAssumption DEF Start
      <3>2. live' \in LiveType
        BY <2>16 DEF Start, LiveType
      <3>3. StateTypes'
        BY <2>s, <2>16, <3>2, WriteTypes DEF Start, StateTypes
      <3> QED
        BY <2>16, <3>1, <3>3, <2>t DEF Start
    <2>17. ASSUME NEW new \in [pin : Pins \cup {None}, unattended : BOOLEAN], Change(new)
           PROVE  TypeOK'
      <3>1. ActivePin' \in Pins \cup {None}
        BY <2>17 DEF Change, ActivePin
      <3> QED
        BY <2>17, <3>1 DEF Change
    <2>18. CASE SetPin
      BY <2>17, <2>18 DEF SetPin
    <2>19. CASE ClearPin
      BY <2>17, <2>19 DEF ClearPin
    <2>20. CASE Unattended
      BY <2>17, <2>20 DEF Unattended
    <2>21. CASE Tick
      BY <2>21 DEF Tick
    <2>22. CASE UNCHANGED vars
      BY <2>22 DEF vars
    <2> QED
      BY <2>1, <2>2, <2>3, <2>4, <2>5, <2>6, <2>7, <2>8, <2>9, <2>10, <2>11, <2>12,
         <2>13, <2>14, <2>15, <2>16, <2>18, <2>19, <2>20, <2>21, <2>22 DEF Next
  <1> QED
    BY <1>1, <1>2, PTL DEF Spec

-----------------------------------------------------------------------------
(* HostAccess: how often one may guess *)

\* What keeps guesses apart: every wrong PIN from the last free one on opened a
\* lock of BaseLock or more, all but the last of which have passed, and the
\* exchange that will be judged next began after the last.
Locks ==
    /\ failures >= FreeFailures =>
         (failures - FreeFailures + 1) * BaseLock <= waited + (until - now)
    /\ phase = "confirm" => until <= now

GInv == TypeOK /\ Locks /\ GuessRate

\* One more wrong PIN, judged when no lock ran.
LEMMA WrongPinKeepsRate == GInv /\ WrongPin => Locks' /\ GuessRate'
  <1> SUFFICES ASSUME TypeOK, Locks, GuessRate, WrongPin PROVE Locks' /\ GuessRate'
    BY DEF GInv
  <1>1. /\ failures \in Nat /\ failures' = failures + 1
        /\ waited \in Nat /\ waited' = waited
        /\ now \in Nat /\ now' = now
        /\ until \in Nat /\ until <= now
        /\ phase' = "delay"
    BY DEF WrongPin, TypeOK, Locks
  <1>2. FreeFailures \in Nat \ {0} /\ BaseLock \in Nat \ {0}
    BY LockAssumption
  <1>3. CASE failures' < FreeFailures
    BY <1>1, <1>2, <1>3 DEF Locks, GuessRate
  <1>4. CASE failures' >= FreeFailures
    <2> DEFINE k == failures - FreeFailures
    <2>1. until' = now + LockFor(failures')
      BY <1>1, <1>2, <1>4 DEF WrongPin
    <2>2. LockFor(failures') \in Nat /\ BaseLock <= LockFor(failures')
      BY <1>1, <1>4, LockBounds
    <2>3. failures' - FreeFailures = k + 1 /\ k \in Int /\ k + 1 >= 0
      BY <1>1, <1>2, <1>4
    <2>4. (k + 1) * BaseLock <= waited
      <3>1. CASE k + 1 = 0
        BY <1>1, <1>2, <3>1
      <3>2. CASE k + 1 # 0
        <4>1. failures >= FreeFailures
          BY <1>1, <1>2, <2>3, <3>2
        <4> QED
          BY <1>1, <1>2, <4>1 DEF Locks
      <3> QED
        BY <3>1, <3>2
    <2>5. (k + 1 + 1) * BaseLock = (k + 1) * BaseLock + BaseLock
      BY <1>2, <2>3
    <2>6. (k + 1) * BaseLock \in Int
      BY <1>2, <2>3
    <2>7. (k + 1 + 1) * BaseLock <= waited' + (until' - now')
      BY <1>1, <1>2, <2>1, <2>2, <2>4, <2>5, <2>6
    <2>8. Locks'
      BY <1>1, <2>3, <2>7 DEF Locks
    <2>9. GuessRate'
      BY <1>1, <2>3, <2>4 DEF GuessRate
    <2> QED
      BY <2>8, <2>9
  <1> QED
    BY <1>1, <1>2, <1>3, <1>4

LEMMA RateInductive == GInv /\ [Next]_vars => Locks' /\ GuessRate'
  <1> SUFFICES ASSUME GInv, [Next]_vars PROVE Locks' /\ GuessRate'
    OBVIOUS
  <1> USE DEF GInv, Locks, GuessRate, processVars, clientVars, lockVars, settingsVars
  <1>1. CASE WrongPin
    BY <1>1, WrongPinKeepsRate
  <1>2. CASE StartExchange
    BY <1>2 DEF StartExchange, Locked, TypeOK
  <1>3. CASE RightPin \/ Start
    BY <1>3, LockAssumption DEF RightPin, Start, TypeOK
  <1>4. CASE Tick
    <2>1. CASE failures = 0
      BY <1>4, <2>1, LockAssumption DEF Tick, TypeOK
    <2>2. CASE failures # 0
      <3>1. /\ waited' = waited + 1 /\ now' = now + 1
            /\ until' = until /\ failures' = failures /\ phase' = phase
        BY <1>4, <2>2 DEF Tick
      <3>2. (failures - FreeFailures) * BaseLock \in Int
        BY LockAssumption DEF TypeOK
      <3>3. waited' + (until' - now') = waited + (until - now)
        BY <3>1 DEF TypeOK
      <3> QED
        BY <3>1, <3>2, <3>3 DEF TypeOK
    <2> QED
      BY <2>1, <2>2
  <1>5. CASE Deny \/ DenyWrongPin \/ HandshakeFails \/ SessionEnds \/ Crash
    BY <1>5 DEF Deny, DenyWrongPin, HandshakeFails, SessionEnds, Crash, EndClient, NoClient
  <1>6. CASE Connect \/ ReadPin \/ Admit \/ CaptureOpens
    BY <1>6 DEF Connect, ReadPin, Admit, CaptureOpens
  <1>7. CASE Disconnect \/ AskToStop \/ Stop
    BY <1>7 DEF Disconnect, AskToStop, Stop
  <1>8. CASE SetPin \/ ClearPin \/ Unattended
    BY <1>8 DEF SetPin, ClearPin, Unattended, Change
  <1>9. CASE UNCHANGED vars
    BY <1>9 DEF vars
  <1> QED
    BY <1>1, <1>2, <1>3, <1>4, <1>5, <1>6, <1>7, <1>8, <1>9 DEF Next

\* After the free guesses every further one costs BASE_LOCK at least, however
\* wrong and right PINs, changes of the settings, crashes and restarts mix
\* (Lockout::fail, and the look at the lock in authenticate).
THEOREM GuessesAreRare == Spec => []GuessRate
  <1>1. Init => Locks /\ GuessRate
    BY LockAssumption DEF Init, Locks, GuessRate
  <1>2. TypeOK /\ Locks /\ GuessRate /\ [Next]_vars => Locks' /\ GuessRate'
    BY RateInductive DEF GInv
  <1> QED
    BY <1>1, <1>2, TypeCorrect, PTL DEF Spec

-----------------------------------------------------------------------------
(* HostAccess: who is let in *)

\* What a handshake knows: its PIN was read after the client connected, so it
\* is among those active since; and the verdict is that of the comparison.
Recent ==
    /\ phase # "listening" => running /\ ActivePin \in valid
    /\ phase = "listening" => pinRead = None
    /\ pinRead # None => pinRead \in valid
    /\ phase \in {"confirm", "delay", "proved"} \cup Session => pinRead # None
    /\ phase = "delay" => guess # pinRead
    /\ phase \in {"proved"} \cup Session => guess = pinRead

LEMMA RecentInductive == TypeOK /\ Recent /\ [Next]_vars => Recent'
  <1> SUFFICES ASSUME TypeOK, Recent, [Next]_vars PROVE Recent'
    OBVIOUS
  <1> USE DEF Recent, processVars, clientVars, lockVars, settingsVars
  <1>1. CASE Connect
    BY <1>1 DEF Connect, ActivePin, Session
  <1>2. CASE ReadPin
    BY <1>2 DEF ReadPin, ActivePin, Session
  <1>3. CASE Deny \/ DenyWrongPin \/ HandshakeFails \/ SessionEnds \/ Crash
    BY <1>3 DEF Deny, DenyWrongPin, HandshakeFails, SessionEnds, Crash, EndClient, NoClient, Session
  <1>4. CASE StartExchange \/ WrongPin \/ RightPin \/ Admit \/ CaptureOpens
    BY <1>4 DEF StartExchange, WrongPin, RightPin, Admit, CaptureOpens, ActivePin, Session
  <1>5. CASE Disconnect \/ AskToStop \/ Stop \/ Tick
    BY <1>5 DEF Disconnect, AskToStop, Stop, Tick, ActivePin, Session
  <1>6. CASE Start
    BY <1>6 DEF Start, Session
  <1>7. ASSUME NEW new, Change(new) PROVE Recent'
    BY <1>7 DEF Change, ActivePin, Session, TypeOK
  <1>8. CASE SetPin \/ ClearPin \/ Unattended
    BY <1>7, <1>8 DEF SetPin, ClearPin, Unattended
  <1>9. CASE UNCHANGED vars
    BY <1>9 DEF vars, ActivePin, Session
  <1> QED
    BY <1>1, <1>2, <1>3, <1>4, <1>5, <1>6, <1>8, <1>9 DEF Next

LEMMA RecentAlways == Spec => []Recent
  <1>1. Init => Recent
    BY DEF Init, Recent, Session
  <1> QED
    BY <1>1, RecentInductive, TypeCorrect, PTL DEF Spec

\* Nobody gets in with a PIN that was replaced, removed or switched off before
\* he connected, and nobody is charged for the only one that was active since
\* (the settings are read anew in handle_client).
THEOREM JudgedByTheSettings == Spec => []JudgedByRecentPin
  <1>1. Recent => JudgedByRecentPin
    BY DEF Recent, JudgedByRecentPin
  <1> QED
    BY <1>1, RecentAlways, PTL

-----------------------------------------------------------------------------
(* HostAccess: what the bar shows *)

\* What the process keeps in memory is always so, and what it wrote last is
\* what it kept.
Published ==
    /\ running => /\ live.pid = starts
                  /\ live.status = IF phase \in Session THEN phase ELSE "listening"
                  /\ live.lockedUntil = until
    /\ ~ running => phase = "listening"
    /\ recorded => IF running THEN file = FileOf(live) ELSE ~ file.present

\* A publication, whether the write succeeds or not.
LEMMA Publication ==
    ASSUME StateTypes, running, running' = running, NEW status, NEW end, Publish(status, end)
    PROVE  /\ live'.pid = live.pid /\ live'.status = status /\ live'.lockedUntil = end
           /\ recorded' => IF running' THEN file' = FileOf(live') ELSE ~ file'.present
  BY DEF Publish, Write, Keep, StateTypes, LiveType

LEMMA PublishedInductive == TypeOK /\ Recent /\ Published /\ [Next]_vars => Published'
  <1> SUFFICES ASSUME TypeOK, Recent, Published, [Next]_vars PROVE Published'
    OBVIOUS
  <1> USE DEF Published, Session, processVars, clientVars, lockVars, settingsVars, stateVars
  <1>s. StateTypes
    BY DEF TypeOK, StateTypes, LiveType, FileType
  <1>r. phase # "listening" => running
    BY DEF Recent
  <1>1. CASE Connect \/ ReadPin \/ StartExchange
    BY <1>1 DEF Connect, ReadPin, StartExchange
  <1>2. CASE WrongPin
    <2>1. /\ running /\ running' = running /\ starts' = starts
          /\ phase = "confirm" /\ phase' = "delay"
      BY <1>2, <1>r DEF WrongPin
    <2>2. CASE failures' < FreeFailures
      BY <1>2, <2>1, <2>2 DEF WrongPin
    <2>3. CASE ~ failures' < FreeFailures
      <3>1. Publish(live.status, until')
        BY <1>2, <2>3 DEF WrongPin
      <3> QED
        BY <1>s, <2>1, <3>1, Publication
    <2> QED
      BY <2>2, <2>3
  <1>3. CASE RightPin
    <2>1. /\ running /\ running' = running /\ starts' = starts
          /\ phase = "confirm" /\ phase' = "proved" /\ until' = 0
          /\ Publish(live.status, 0)
      BY <1>3, <1>r DEF RightPin
    <2> QED
      BY <1>s, <2>1, Publication
  <1>4. CASE Admit \/ CaptureOpens
    <2>1. /\ running /\ running' = running /\ starts' = starts /\ until' = until
          /\ phase' \in Session
          /\ Publish(phase', live.lockedUntil)
      BY <1>4, <1>r DEF Admit, CaptureOpens
    <2> QED
      BY <1>s, <2>1, Publication
  <1>5. CASE Deny \/ DenyWrongPin \/ HandshakeFails \/ SessionEnds
    <2>1. /\ running /\ running' = running /\ starts' = starts /\ until' = until
          /\ phase' = "listening"
          /\ Publish("listening", live.lockedUntil)
      BY <1>5, <1>r DEF Deny, DenyWrongPin, HandshakeFails, Handshake, SessionEnds, EndClient, NoClient
    <2> QED
      BY <1>s, <2>1, Publication
  <1>6. CASE Disconnect \/ AskToStop \/ Tick
    BY <1>6 DEF Disconnect, AskToStop, Tick
  <1>7. CASE Stop
    <2>1. ~ running' /\ phase' = "listening"
      BY <1>7 DEF Stop
    <2>2. recorded' => ~ file'.present
      BY <1>7, <1>s DEF Stop, Keep, StateTypes, FileType
    <2> QED
      BY <2>1, <2>2
  <1>8. CASE Crash
    BY <1>8 DEF Crash, NoClient
  <1>9. CASE Start
    <2>1. /\ running' /\ phase' = "listening" /\ until' = 0
          /\ live' = [pid |-> starts', status |-> "listening", lockedUntil |-> 0]
          /\ Write(live')
      BY <1>9 DEF Start
    <2>2. recorded' => file' = FileOf(live')
      BY <2>1 DEF Write, Keep
    <2> QED
      BY <2>1, <2>2
  <1>10. CASE SetPin \/ ClearPin \/ Unattended
    BY <1>10 DEF SetPin, ClearPin, Unattended, Change
  <1>11. CASE UNCHANGED vars
    BY <1>11 DEF vars
  <1> QED
    BY <1>1, <1>2, <1>3, <1>4, <1>5, <1>6, <1>7, <1>8, <1>9, <1>10, <1>11 DEF Next

\* The bar shows a session exactly while there is one, a stopped host exactly
\* while there is none, and the lock that runs, whichever way handshakes,
\* sessions and processes end (Publisher::update, report), once a write
\* succeeded again, and whatever other processes have which pids; of a host
\* that left its file behind, until another process has its pid.
THEOREM TheBarIsTruthful == Spec => []StatusIsTruthful
  <1>1. Init => Published
    <2> SUFFICES ASSUME Init PROVE Published
      OBVIOUS
    <2>1. /\ running = TRUE /\ starts = 1 /\ phase = "listening" /\ until = 0
          /\ live = [pid |-> 1, status |-> "listening", lockedUntil |-> 0]
          /\ recorded = (unwritten = 0)
          /\ file = [FileOf(live) EXCEPT !.present = recorded]
      BY DEF Init
    <2>2. recorded => file = FileOf(live)
      BY <2>1 DEF FileOf
    <2> QED
      BY <2>1, <2>2 DEF Published, Session
  <1>2. TypeOK /\ Published => StatusIsTruthful
    <2> SUFFICES ASSUME TypeOK, Published, NEW others \in SUBSET Pids
                 PROVE  /\ recorded => Reported(others) = Doing
                        /\ recorded /\ running => file.lockedUntil = until
                        /\ ~ running /\ file.pid \notin others => Reported(others) = "stopped"
      BY DEF StatusIsTruthful
    <2>1. CASE recorded /\ running
      BY <2>1 DEF Published, FileOf, Reported, Doing
    <2>2. CASE recorded /\ ~ running
      BY <2>2 DEF Published, Reported, Doing
    <2>3. CASE ~ recorded
      BY <2>3 DEF Reported
    <2> QED
      BY <2>1, <2>2, <2>3
  <1> QED
    BY <1>1, <1>2, PublishedInductive, RecentAlways, TypeCorrect, PTL DEF Spec

-----------------------------------------------------------------------------
(* Admission: it implements HostAccess *)

\* Each step of the clients leaves the host alone or is one of its own.
LEMMA StepsOfTheHost == [AdmissionNext]_admissionVars => [Next]_vars
  <1> SUFFICES ASSUME [AdmissionNext]_admissionVars PROVE [Next]_vars
    OBVIOUS
  <1>1. CASE Strangers
    BY <1>1 DEF Strangers
  <1>2. CASE Ours(Clients)
    <2>1. CASE \E a \in Attempts : Open(a) \/ Greet(a) \/ Thread(a) \/ Leave(a) \/ FallSilent(a)
      BY <2>1 DEF Open, Greet, Thread, Proceed, Refused, Lost, ObeyDisconnect, Leave, FallSilent
    <2>2. CASE Quit
      BY <2>2 DEF Quit
    <2>3. CASE Accept \/ Acknowledge \/ Turn \/ Exchange \/ Judge
      BY <2>3 DEF Accept, Acknowledge, Turn, Exchange, Judge, Next
    <2>4. CASE TurnWrongPin \/ Confirm \/ GiveUp \/ GoDown \/ Apart
      BY <2>4 DEF TurnWrongPin, Confirm, GiveUp, GoDown, Apart, Next
    <2> QED
      BY <1>2, <2>1, <2>2, <2>3, <2>4 DEF Ours, Clients
  <1>3. CASE UNCHANGED admissionVars
    BY <1>3 DEF admissionVars
  <1> QED
    BY <1>1, <1>2, <1>3 DEF AdmissionNext

\* The host with its clients, their threads and its backlog is the host of
\* HostAccess: what that promises holds here.
THEOREM ImplementsHostAccess == AdmissionSpec => Spec
  <1>1. AdmissionInit => Init
    BY DEF AdmissionInit
  <1> QED
    BY <1>1, StepsOfTheHost, PTL DEF AdmissionSpec, Spec

-----------------------------------------------------------------------------
(* Admission: both ends agree *)

\* The states of an attempt, and what its line may hold.
AttemptType ==
    [at : {"idle", "over", "in"} \cup Connecting, left : BOOLEAN, silent : BOOLEAN,
     inbox : Messages \cup {None}, ended : BOOLEAN]

AdmissionTypeOK ==
    /\ client \in [Attempts -> AttemptType]
    /\ queue \in Seq([attempt : Attempts, pin : Pins])
    /\ served \in Attempts \cup {None}
    /\ toHost \in Messages \cup {None}
    /\ strangers \in BOOLEAN

\* A connection in the backlog is one of an attempt that waits and was told
\* nothing; no attempt has two, and the one served has none.
Pristine(c) == c.at = "connecting" /\ c.inbox = None /\ ~ c.ended

Backlog ==
    /\ \A i \in DOMAIN queue : Pristine(client[queue[i].attempt]) /\ queue[i].attempt # served
    /\ \A i, j \in DOMAIN queue : queue[i].attempt = queue[j].attempt => i = j

\* What the host's client is told, unless its network is gone.
Heard(c, message) == c.inbox = message \/ c.silent

\* The attempt that is served and the host are at the same place of the
\* handshake, or one of them is a message ahead of the other.
InStep(c) ==
    \/ phase = "hello" /\ c.at = "connecting" /\ c.inbox = None /\ toHost = None
    \/ phase = "hello" /\ c.at = "hello" /\ c.inbox = None /\ toHost = "Hello"
    \/ phase = "auth" /\ c.at = "hello" /\ Heard(c, "HelloAck") /\ toHost = None
    \/ phase = "auth" /\ c.at = "auth" /\ c.inbox = None /\ toHost = "Auth"
    \/ phase = "confirm" /\ c.at = "auth" /\ Heard(c, "Auth") /\ toHost = None
    \/ phase = "confirm" /\ c.at = "confirm" /\ c.inbox = None /\ toHost = "AuthConfirm"
    \/ phase \in {"delay", "proved"} /\ c.at = "confirm" /\ c.inbox = None /\ toHost = None
    \/ phase \in Session /\ c.at = "confirm" /\ Heard(c, "AuthConfirm") /\ toHost = None
    \/ phase \in Session /\ c.at = "in" /\ c.inbox = None /\ toHost = None

Line ==
    /\ \A a \in Attempts : client[a].silent => client[a].inbox = None
    /\ served # None => /\ ~ strangers
                        /\ ~ client[served].ended
                        /\ InStep(client[served])
    /\ phase = "listening" \/ strangers => toHost = None

EInv == AdmissionTypeOK /\ Backlog /\ Line

\* Initially nobody connects.
LEMMA AdmissionInitInvariant == AdmissionInit => EInv
  BY AttemptsAssumption
  DEF AdmissionInit, EInv, AdmissionTypeOK, Backlog, Line, Idle, AttemptType

LEMMA QueueElements ==
    ASSUME AdmissionTypeOK
    PROVE  /\ Len(queue) \in Nat /\ DOMAIN queue = 1..Len(queue)
           /\ \A i \in DOMAIN queue : /\ queue[i] \in [attempt : Attempts, pin : Pins]
                                      /\ queue[i].attempt \in Attempts
                                      /\ queue[i].attempt # None
  <1>1. queue \in Seq([attempt : Attempts, pin : Pins])
    BY DEF AdmissionTypeOK
  <1>2. Len(queue) \in Nat /\ DOMAIN queue = 1..Len(queue)
    BY <1>1, LenProperties
  <1>3. \A i \in DOMAIN queue : queue[i] \in [attempt : Attempts, pin : Pins]
    BY <1>1, <1>2, ElementOfSeq
  <1> QED
    BY <1>2, <1>3, AttemptsAssumption

\* The backlog only looks at attempts that are in it.
LEMMA BacklogKept ==
    ASSUME Backlog, UNCHANGED queue, served' \in {served, None}, AdmissionTypeOK,
           \A i \in DOMAIN queue :
               LET a == queue[i].attempt
               IN  /\ client'[a].at = client[a].at
                   /\ client'[a].inbox \in {client[a].inbox, None}
                   /\ client'[a].ended = client[a].ended
    PROVE  Backlog'
  <1>1. \A i \in DOMAIN queue : queue[i].attempt # None
    BY QueueElements
  <1> QED
    BY <1>1 DEF Backlog, Pristine

\* A step of one attempt that is not in the backlog leaves it alone.
LEMMA BacklogBeside ==
    ASSUME Backlog, UNCHANGED queue, served' \in {served, None}, AdmissionTypeOK,
           NEW a \in Attempts, client[a].at # "connecting",
           \A b \in Attempts \ {a} : client'[b] = client[b]
    PROVE  Backlog'
  <1>1. \A i \in DOMAIN queue : queue[i].attempt \in Attempts
    BY QueueElements
  <1>2. \A i \in DOMAIN queue : queue[i].attempt # a
    BY DEF Backlog, Pristine
  <1> QED
    BY <1>1, <1>2, BacklogKept

LEMMA OpenStep ==
    ASSUME EInv, NEW a \in Attempts, Ours(Open(a))
    PROVE  EInv'
  <1> USE DEF EInv
  <1>1. /\ client[a] = Idle /\ a # served
        /\ \A i \in DOMAIN queue : queue[i].attempt # a
    <2>1. client[a] = Idle
      BY DEF Ours, Open
    <2>2. client[a].at = "idle"
      BY <2>1 DEF Idle
    <2> QED
      BY <2>1, <2>2, AttemptsAssumption DEF Backlog, Line, InStep, Pristine
  <1>2. /\ UNCHANGED <<vars, served, toHost, strangers>>
        /\ client' = [client EXCEPT ![a].at = IF running THEN "connecting" ELSE "over"]
    BY DEF Ours, Open
  <1>3. AdmissionTypeOK'
    <2>1. client' \in [Attempts -> AttemptType]
      BY <1>2 DEF AdmissionTypeOK, AttemptType, Connecting
    <2>2. queue' \in Seq([attempt : Attempts, pin : Pins])
      <3>1. CASE queue' = queue
        BY <3>1 DEF AdmissionTypeOK
      <3>2. CASE queue' # queue
        <4>1. PICK p \in Pins : queue' = Append(queue, [attempt |-> a, pin |-> p])
          BY <3>2 DEF Ours, Open
        <4>2. [attempt |-> a, pin |-> p] \in [attempt : Attempts, pin : Pins]
          OBVIOUS
        <4> QED
          BY <4>1, <4>2, AppendProperties DEF AdmissionTypeOK
      <3> QED
        BY <3>1, <3>2
    <2> QED
      BY <1>2, <2>1, <2>2 DEF AdmissionTypeOK
  <1>4. Line'
    BY <1>1, <1>2, AttemptsAssumption DEF Line, InStep, Heard, AdmissionTypeOK, Idle, vars, clientVars
  <1>5. Backlog'
    <2>1. CASE ~ running
      <3>1. queue' = queue
        BY <2>1 DEF Ours, Open
      <3> QED
        BY <1>1, <1>2, <3>1, QueueElements DEF Backlog, AdmissionTypeOK
    <2>2. CASE running
      <3>1. PICK p \in Pins : queue' = Append(queue, [attempt |-> a, pin |-> p])
        BY <2>2 DEF Ours, Open
      <3>2. /\ DOMAIN queue' = 1..(Len(queue) + 1)
            /\ \A i \in DOMAIN queue : queue'[i] = queue[i]
            /\ queue'[Len(queue) + 1].attempt = a
        <4>1. [attempt |-> a, pin |-> p] \in [attempt : Attempts, pin : Pins]
          OBVIOUS
        <4> QED
          BY <3>1, <4>1, AppendProperties, QueueElements DEF AdmissionTypeOK
      <3>3. /\ client'[a].at = "connecting" /\ client'[a].inbox = None /\ ~ client'[a].ended
            /\ \A b \in Attempts \ {a} : client'[b] = client[b]
        BY <1>1, <1>2, <2>2 DEF AdmissionTypeOK, Idle
      <3>4. \A i \in DOMAIN queue' : Pristine(client'[queue'[i].attempt]) /\ queue'[i].attempt # served'
        <4> SUFFICES ASSUME NEW i \in DOMAIN queue'
                     PROVE  Pristine(client'[queue'[i].attempt]) /\ queue'[i].attempt # served'
          OBVIOUS
        <4>1. CASE i = Len(queue) + 1
          <5>1. queue'[i].attempt = a
            BY <3>2, <4>1
          <5>2. Pristine(client'[a])
            BY <3>3 DEF Pristine
          <5> QED
            BY <1>1, <1>2, <5>1, <5>2
        <4>2. CASE i # Len(queue) + 1
          <5>1. i \in DOMAIN queue /\ queue'[i] = queue[i] /\ queue[i].attempt \in Attempts \ {a}
            BY <1>1, <3>2, <4>2, QueueElements
          <5>2. Pristine(client[queue[i].attempt]) /\ queue[i].attempt # served
            BY <5>1 DEF Backlog
          <5>3. client'[queue[i].attempt] = client[queue[i].attempt]
            BY <3>3, <5>1
          <5> QED
            BY <1>2, <5>1, <5>2, <5>3
        <4> QED
          BY <4>1, <4>2
      <3>5. \A i, j \in DOMAIN queue' : queue'[i].attempt = queue'[j].attempt => i = j
        BY <1>1, <3>2, QueueElements DEF Backlog
      <3> QED
        BY <3>4, <3>5 DEF Backlog
    <2> QED
      BY <2>1, <2>2
  <1> QED
    BY <1>3, <1>4, <1>5

\* Neither does the line, while the host stands still.
LEMMA LineBeside ==
    ASSUME Line, AdmissionTypeOK, UNCHANGED <<phase, strangers>>,
           NEW a \in Attempts, \A b \in Attempts \ {a} : client'[b] = client[b],
           client'[a].silent => client'[a].inbox = None,
           served' \in {served, None},
           served' # a => UNCHANGED toHost,
           served' = a => ~ client'[a].ended /\ InStep(client[a])'
    PROVE  Line'
  <1>1. \A b \in Attempts : client'[b].silent => client'[b].inbox = None
    BY DEF Line
  <1>2. CASE served' \in {None, a}
    <2>1. served' = a => ~ strangers
      BY AttemptsAssumption DEF Line
    <2>2. served' = a => phase' # "listening"
      BY DEF InStep, Session
    <2> QED
      BY <1>1, <1>2, <2>1, <2>2 DEF Line
  <1>3. CASE served' \notin {None, a}
    <2>1. served' = served /\ client'[served] = client[served] /\ toHost' = toHost
      BY <1>3 DEF AdmissionTypeOK
    <2>2. ~ strangers' /\ ~ client'[served].ended /\ InStep(client[served])
      BY <1>3, <2>1 DEF Line
    <2>3. InStep(client[served])'
      BY <2>1, <2>2 DEF InStep, Heard
    <2> QED
      BY <1>1, <2>1, <2>2, <2>3 DEF Line
  <1> QED
    BY <1>2, <1>3

\* The thread or the window of attempt a does something of its own.
LEMMA AttemptStep ==
    ASSUME EInv, NEW a \in Attempts,
           Ours(Greet(a) \/ Thread(a) \/ Leave(a) \/ FallSilent(a))
    PROVE  EInv'
  <1> USE DEF EInv
  <1>0. \/ Greet(a) \/ Proceed(a) \/ Refused(a) \/ Lost(a)
        \/ ObeyDisconnect(a) \/ Leave(a) \/ FallSilent(a)
    BY DEF Ours, Thread
  <1>1. /\ UNCHANGED <<vars, queue, strangers>> /\ served' \in {served, None}
        /\ client' \in [Attempts -> AttemptType]
        /\ toHost' \in Messages \cup {None}
        /\ \A b \in Attempts \ {a} : client'[b] = client[b]
    <2>1. CASE Greet(a)
      BY <2>1 DEF Ours, Greet, AdmissionTypeOK, AttemptType, Connecting, Idle, Messages
    <2>2. CASE Proceed(a)
      <3>1. /\ client[a].at \in {"hello", "auth", "confirm"} /\ served' = served
            /\ UNCHANGED <<vars, queue, strangers>>
            /\ client' = [client EXCEPT ![a].at = Following[client[a].at], ![a].inbox = None]
            /\ toHost' = IF served = a THEN Answer[client[a].at] ELSE toHost
        BY <2>2 DEF Ours, Proceed, Expected
      <3>2. /\ Following[client[a].at] \in {"auth", "confirm", "in"}
            /\ Answer[client[a].at] \in Messages \cup {None}
        BY <3>1 DEF Following, Answer, Messages
      <3> QED
        BY <3>1, <3>2 DEF AdmissionTypeOK, AttemptType, Connecting
    <2>3. CASE Refused(a)
      BY <2>3 DEF Ours, Refused, AdmissionTypeOK, AttemptType, Connecting, Idle, Over, LetGo
    <2>4. CASE Lost(a)
      BY <2>4 DEF Ours, Lost, AdmissionTypeOK, AttemptType, Connecting, Idle, Over
    <2>5. CASE ObeyDisconnect(a)
      BY <2>5 DEF Ours, ObeyDisconnect, AdmissionTypeOK, AttemptType, Connecting, Idle, Over, LetGo
    <2>6. CASE Leave(a)
      BY <2>6 DEF Ours, Leave, AdmissionTypeOK, AttemptType, Connecting, Idle
    <2>7. CASE FallSilent(a)
      BY <2>7 DEF Ours, FallSilent, AdmissionTypeOK, AttemptType, Connecting, Idle
    <2> QED
      BY <1>0, <2>1, <2>2, <2>3, <2>4, <2>5, <2>6, <2>7
  <1>2. AdmissionTypeOK'
    BY <1>1 DEF AdmissionTypeOK
  <1>3. a # None /\ client[a] \in AttemptType /\ UNCHANGED phase /\ None \notin Messages
    BY <1>1, AttemptsAssumption DEF AdmissionTypeOK, vars, clientVars
  <1>4. CASE Greet(a)
    <2>1. /\ served = a /\ served' = a /\ toHost' = "Hello"
          /\ client[a].at = "connecting"
          /\ client'[a] = [client[a] EXCEPT !.at = "hello"]
      BY <1>4 DEF Greet, AdmissionTypeOK
    <2>2. Line'
      <3>1. InStep(client[a]) /\ ~ client[a].ended
        BY <1>3, <2>1 DEF Line
      <3>2. phase = "hello" /\ client[a].inbox = None
        BY <2>1, <3>1 DEF InStep
      <3>3. InStep(client[a])'
        BY <1>3, <2>1, <3>2 DEF InStep, AttemptType
      <3> QED
        BY <1>1, <1>3, <2>1, <3>1, <3>2, <3>3, LineBeside DEF AttemptType
    <2>3. \A i \in DOMAIN queue : queue[i].attempt # a
      BY <2>1 DEF Backlog
    <2>4. Backlog'
      BY <1>1, <2>1, <2>3, BacklogKept, QueueElements
    <2> QED
      BY <1>2, <2>2, <2>4
  <1>5. CASE Proceed(a)
    <2>1. /\ client[a].at \in DOMAIN Expected /\ client[a].inbox = Expected[client[a].at]
          /\ served' = served
          /\ toHost' = IF served = a THEN Answer[client[a].at] ELSE toHost
          /\ client'[a] = [client[a] EXCEPT !.at = Following[client[a].at], !.inbox = None]
      BY <1>5 DEF Proceed, AdmissionTypeOK
    <2>2. client[a].at \in {"hello", "auth", "confirm"}
      BY <2>1 DEF Expected
    <2>3. Line'
      <3>1. client'[a].inbox = None /\ client'[a].ended = client[a].ended
        BY <1>3, <2>1 DEF AttemptType
      <3>2. ASSUME served = a PROVE ~ client[a].ended /\ InStep(client[a])'
        <4>1. InStep(client[a]) /\ ~ client[a].ended
          BY <1>3, <3>2 DEF Line
        <4>2. client[a].inbox # None /\ ~ client[a].silent
          BY <1>3, <2>1, <2>2 DEF Expected, Messages, Line
        <4> QED
          BY <1>3, <2>1, <2>2, <3>2, <4>1, <4>2
          DEF InStep, Heard, AttemptType, Expected, Following, Answer, Messages
      <3> QED
        BY <1>1, <1>3, <2>1, <3>1, <3>2, LineBeside
    <2>4. Backlog'
      BY <1>1, <2>2, BacklogBeside
    <2> QED
      BY <1>2, <2>3, <2>4
  <1>6. CASE Refused(a)
    <2>1. /\ client[a].at # "connecting" /\ served' # a /\ toHost' = toHost
          /\ client'[a].inbox = None
      BY <1>3, <1>6 DEF Refused, Over, LetGo, Expected, AdmissionTypeOK, Idle
    <2>2. Line'
      BY <1>1, <1>3, <2>1, LineBeside
    <2>3. Backlog'
      BY <1>1, <2>1, BacklogBeside
    <2> QED
      BY <1>2, <2>2, <2>3
  <1>7. CASE Lost(a)
    <2>1. /\ client[a].ended /\ served # a /\ served' = served /\ toHost' = toHost
          /\ client'[a].inbox = None
      BY <1>3, <1>7 DEF Lost, Over, AdmissionTypeOK, Idle, Line
    <2>2. Line'
      BY <1>1, <1>3, <2>1, LineBeside
    <2>3. \A i \in DOMAIN queue : queue[i].attempt # a
      BY <2>1 DEF Backlog, Pristine
    <2>4. Backlog'
      BY <1>1, <2>1, <2>3, BacklogKept, QueueElements
    <2> QED
      BY <1>2, <2>2, <2>4
  <1>8. CASE ObeyDisconnect(a)
    <2>1. /\ client[a].at # "connecting" /\ served' # a /\ toHost' = toHost
          /\ client'[a].inbox = None
      BY <1>3, <1>8 DEF ObeyDisconnect, Over, LetGo, AdmissionTypeOK, Idle
    <2>2. Line'
      BY <1>1, <1>3, <2>1, LineBeside
    <2>3. Backlog'
      BY <1>1, <2>1, BacklogBeside
    <2> QED
      BY <1>2, <2>2, <2>3
  <1>9. CASE Leave(a)
    <2>1. served' = served /\ toHost' = toHost
      BY <1>9 DEF Leave
    <2>2. CASE client[a].at = "over"
      <3>1. served # a /\ client'[a] = Idle
        BY <1>3, <1>9, <2>2 DEF Leave, AdmissionTypeOK, Line, InStep
      <3>2. Line'
        BY <1>1, <1>3, <2>1, <3>1, LineBeside DEF Idle
      <3>3. Backlog'
        BY <1>1, <2>2, BacklogBeside
      <3> QED
        BY <1>2, <3>2, <3>3
    <2>3. CASE client[a].at # "over"
      <3>1. client'[a] = [client[a] EXCEPT !.left = TRUE]
        BY <1>9, <2>3 DEF Leave, AdmissionTypeOK
      <3>2. /\ client'[a].at = client[a].at /\ client'[a].inbox = client[a].inbox
            /\ client'[a].ended = client[a].ended /\ client'[a].silent = client[a].silent
        BY <1>3, <3>1 DEF AttemptType
      <3>3. Line'
        <4>1. served = a => ~ client[a].ended /\ InStep(client[a])
          BY <1>3 DEF Line
        <4>2. served = a => InStep(client[a])'
          BY <1>3, <2>1, <3>2, <4>1 DEF InStep, Heard
        <4> QED
          BY <1>1, <1>3, <2>1, <3>2, <4>1, <4>2, LineBeside DEF Line
      <3>4. \A b \in Attempts : /\ client'[b].at = client[b].at
                                /\ client'[b].inbox \in {client[b].inbox, None}
                                /\ client'[b].ended = client[b].ended
        BY <1>1, <3>2
      <3>5. Backlog'
        BY <1>1, <3>4, BacklogKept, QueueElements
      <3> QED
        BY <1>2, <3>3, <3>5
    <2> QED
      BY <2>2, <2>3
  <1>10. CASE FallSilent(a)
    <2>1. served' = served /\ toHost' = toHost
          /\ client'[a] = [client[a] EXCEPT !.silent = TRUE, !.inbox = None]
      BY <1>10 DEF FallSilent, AdmissionTypeOK
    <2>5. /\ client'[a].at = client[a].at /\ client'[a].inbox = None
          /\ client'[a].ended = client[a].ended /\ client'[a].silent
      BY <1>3, <2>1 DEF AttemptType
    <2>2. Line'
      <3>1. served = a => ~ client[a].ended /\ InStep(client[a])
        BY <1>3 DEF Line
      <3>2. served = a => InStep(client[a])'
        BY <1>3, <2>1, <2>5, <3>1 DEF InStep, Heard
      <3> QED
        BY <1>1, <1>3, <2>1, <2>5, <3>1, <3>2, LineBeside
    <2>3. \A b \in Attempts : /\ client'[b].at = client[b].at
                              /\ client'[b].inbox \in {client[b].inbox, None}
                              /\ client'[b].ended = client[b].ended
      BY <1>1, <2>5
    <2>4. Backlog'
      BY <1>1, <2>3, BacklogKept, QueueElements
    <2> QED
      BY <1>2, <2>2, <2>4
  <1> QED
    BY <1>0, <1>4, <1>5, <1>6, <1>7, <1>8, <1>9, <1>10


\* The program is closed.
LEMMA QuitStep == EInv /\ Ours(Quit) => EInv'
  <1> SUFFICES ASSUME EInv, Ours(Quit) PROVE EInv'
    OBVIOUS
  <1>1. /\ client' = [a \in Attempts |-> Idle] /\ queue' = <<>> /\ served' = None
        /\ UNCHANGED <<phase, toHost, strangers>>
    BY DEF Ours, Quit, vars, clientVars
  <1>2. Idle \in AttemptType /\ Idle.inbox = None
    BY DEF Idle, AttemptType
  <1>3. <<>> \in Seq([attempt : Attempts, pin : Pins]) /\ DOMAIN <<>> = {}
    OBVIOUS
  <1> QED
    BY <1>1, <1>2, <1>3 DEF EInv, AdmissionTypeOK, Backlog, Line

\* A step of the host that keeps its client, whom it may tell something.
LEMMA HostKeeps ==
    ASSUME EInv, UNCHANGED <<queue, served, strangers>>,
           toHost' \in Messages \cup {None}, client' \in [Attempts -> AttemptType],
           \A b \in Attempts \ {served} : client'[b] = client[b],
           phase' = "listening" => phase = "listening",
           toHost' \in {toHost, None},
           served # None => /\ client'[served].ended = client[served].ended
                            /\ client'[served].silent => client'[served].inbox = None
                            /\ InStep(client[served])'
    PROVE  EInv'
  <1> USE DEF EInv
  <1>1. AdmissionTypeOK'
    BY DEF AdmissionTypeOK
  <1>2. \A i \in DOMAIN queue : client'[queue[i].attempt] = client[queue[i].attempt]
    BY QueueElements DEF Backlog
  <1>3. Backlog'
    BY <1>2 DEF Backlog
  <1>4. Line'
    <2>1. \A b \in Attempts : client'[b].silent => client'[b].inbox = None
      <3> SUFFICES ASSUME NEW b \in Attempts PROVE client'[b].silent => client'[b].inbox = None
        OBVIOUS
      <3> QED
        BY AttemptsAssumption DEF Line
    <2>2. phase' = "listening" \/ strangers' => toHost' = None
      BY DEF Line
    <2>3. served' # None => ~ strangers' /\ ~ client'[served'].ended
      BY DEF Line
    <2> QED
      BY <2>1, <2>2, <2>3 DEF Line
  <1> QED
    BY <1>1, <1>3, <1>4

\* What Say does to the line of the host's client.
LEMMA Saying ==
    ASSUME EInv, NEW message \in Messages, Say(message), UNCHANGED strangers
    PROVE  /\ UNCHANGED <<queue, served, strangers>>
           /\ client' \in [Attempts -> AttemptType]
           /\ \A b \in Attempts \ {served} : client'[b] = client[b]
           /\ served # None =>
                /\ client'[served].at = client[served].at
                /\ client'[served].ended = client[served].ended
                /\ client'[served].silent = client[served].silent
                /\ client'[served].inbox = IF client[served].silent THEN None ELSE message
  <1> USE DEF EInv
  <1>1. UNCHANGED <<queue, served, strangers>>
    BY DEF Say
  <1>2. CASE served = None
    BY <1>1, <1>2 DEF Say, AdmissionTypeOK
  <1>3. CASE served # None
    <2>1. served \in Attempts /\ client[served] \in AttemptType
      BY <1>3 DEF AdmissionTypeOK
    <2>2. client' = [client EXCEPT ![served] = Sent(served, [client[served] EXCEPT !.inbox = message])]
      BY <1>3 DEF Say
    <2>3. CASE client[served].silent
      <3>1. client[served].inbox = None
        BY <2>1, <2>3 DEF Line
      <3>2. client' = [client EXCEPT ![served] = client[served]]
        BY <2>2, <2>3 DEF Sent
      <3> QED
        BY <1>1, <2>1, <2>3, <3>1, <3>2 DEF AdmissionTypeOK
    <2>4. CASE ~ client[served].silent
      <3>1. client' = [client EXCEPT ![served] = [client[served] EXCEPT !.inbox = message]]
        BY <2>2, <2>4 DEF Sent
      <3>2. [client[served] EXCEPT !.inbox = message] \in AttemptType
        BY <2>1 DEF AttemptType
      <3>3. client' \in [Attempts -> AttemptType]
        BY <3>1, <3>2 DEF AdmissionTypeOK
      <3>4. client'[served] = [client[served] EXCEPT !.inbox = message]
        BY <2>1, <3>1 DEF AdmissionTypeOK
      <3>5. \A b \in Attempts \ {served} : client'[b] = client[b]
        BY <3>1 DEF AdmissionTypeOK
      <3> QED
        BY <1>1, <2>1, <2>4, <3>3, <3>4, <3>5 DEF AttemptType
    <2> QED
      BY <2>3, <2>4
  <1> QED
    BY <1>2, <1>3

\* The handshake's steps of the host.
LEMMA HandshakeStep ==
    ASSUME EInv, Ours(Acknowledge \/ Exchange \/ Judge \/ Confirm)
    PROVE  EInv'
  <1> USE DEF EInv, Session
  <1>1. UNCHANGED strangers
    BY DEF Ours
  <1>2. None \notin Messages /\ toHost \in Messages \cup {None}
    BY AttemptsAssumption DEF AdmissionTypeOK
  <1>3. served # None => InStep(client[served]) /\ ~ client[served].ended
    BY DEF Line
  <1>4. CASE Acknowledge
    <2>1. Say("HelloAck") /\ phase = "hello" /\ phase' = "auth" /\ toHost = "Hello" /\ toHost' = None
      BY <1>4 DEF Acknowledge, ReadPin, Take
    <2>2. "HelloAck" \in Messages
      BY DEF Messages
    <2>3. served # None => InStep(client[served])'
      BY <1>1, <1>2, <1>3, <2>1, <2>2, Saying DEF InStep, Heard, Messages
    <2> QED
      BY <1>1, <1>2, <2>1, <2>2, <2>3, Saying, HostKeeps
  <1>5. CASE Exchange
    <2>1. Say("Auth") /\ phase = "auth" /\ phase' = "confirm" /\ toHost = "Auth" /\ toHost' = None
      BY <1>5 DEF Exchange, StartExchange, Take
    <2>2. "Auth" \in Messages
      BY DEF Messages
    <2>3. served # None => InStep(client[served])'
      BY <1>1, <1>2, <1>3, <2>1, <2>2, Saying DEF InStep, Heard, Messages
    <2> QED
      BY <1>1, <1>2, <2>1, <2>2, <2>3, Saying, HostKeeps
  <1>6. CASE Judge
    <2>1. /\ phase = "confirm" /\ phase' \in {"delay", "proved"}
          /\ toHost = "AuthConfirm" /\ toHost' = None /\ UNCHANGED <<client, queue, served>>
      BY <1>6 DEF Judge, WrongPin, RightPin, Take
    <2>2. served # None => InStep(client[served])'
      BY <1>2, <1>3, <2>1 DEF InStep, Heard, Messages
    <2> QED
      BY <1>1, <1>2, <2>1, <2>2, HostKeeps DEF AdmissionTypeOK, Line
  <1>7. CASE Confirm
    <2>1. Say("AuthConfirm") /\ phase = "proved" /\ phase' = "sharing" /\ UNCHANGED toHost
      BY <1>7 DEF Confirm, Admit
    <2>2. "AuthConfirm" \in Messages
      BY DEF Messages
    <2>3. served # None => InStep(client[served])'
      BY <1>1, <1>2, <1>3, <2>1, <2>2, Saying DEF InStep, Heard, Messages
    <2> QED
      BY <1>1, <1>2, <2>1, <2>2, <2>3, Saying, HostKeeps
  <1> QED
    BY <1>4, <1>5, <1>6, <1>7 DEF Ours


\* What HangUp does: every line that had nothing keeps nothing while silent.
LEMMA HangingUp ==
    ASSUME EInv, NEW lost, NEW last \in Messages \cup {None}, HangUp(lost, last)
    PROVE  /\ served' = None /\ toHost' = None
           /\ client' \in [Attempts -> AttemptType]
           /\ \A a \in Attempts : client'[a].silent => client'[a].inbox = None
           /\ \A a \in Attempts : a # served /\ a \notin lost => client'[a] = client[a]
  <1> USE DEF EInv
  <1>1. served' = None /\ toHost' = None
    BY DEF HangUp
  <1>2. client' = [a \in Attempts |->
         IF a = served THEN Sent(a, [client[a] EXCEPT !.ended = TRUE,
                                      !.inbox = IF last = None THEN @ ELSE last])
         ELSE IF a \in lost THEN Sent(a, [client[a] EXCEPT !.ended = TRUE])
         ELSE client[a]]
    BY DEF HangUp
  <1>3. ASSUME NEW a \in Attempts
        PROVE  /\ client'[a] \in AttemptType
               /\ client'[a].silent => client'[a].inbox = None
               /\ a # served /\ a \notin lost => client'[a] = client[a]
    <2>1. client[a] \in AttemptType /\ (client[a].silent => client[a].inbox = None)
      BY DEF AdmissionTypeOK, Line
    <2>2. client[a].inbox \in Messages \cup {None}
      BY <2>1 DEF AttemptType
    <2>3. CASE a = served
      <3>1. client'[a] = Sent(a, [client[a] EXCEPT !.ended = TRUE,
                                   !.inbox = IF last = None THEN client[a].inbox ELSE last])
        BY <1>2, <2>3
      <3> QED
        BY <2>1, <2>2, <2>3, <3>1 DEF Sent, AttemptType
    <2>4. CASE a # served /\ a \in lost
      <3>1. client'[a] = Sent(a, [client[a] EXCEPT !.ended = TRUE])
        BY <1>2, <2>4
      <3> QED
        BY <2>1, <2>2, <2>4, <3>1 DEF Sent, AttemptType
    <2>5. CASE a # served /\ a \notin lost
      BY <1>2, <2>1, <2>5
    <2> QED
      BY <2>3, <2>4, <2>5
  <1>4. client' \in [Attempts -> AttemptType]
    <2>1. DOMAIN client' = Attempts /\ client' = [a \in Attempts |-> client'[a]]
      BY <1>2
    <2> QED
      BY <1>3, <2>1
  <1> QED
    BY <1>1, <1>3, <1>4

\* The host lets its client go, or goes itself.
LEMMA HangUpStep ==
    ASSUME EInv, Ours(Turn \/ TurnWrongPin \/ GiveUp \/ GoDown)
    PROVE  EInv'
  <1> USE DEF EInv
  <1>1. UNCHANGED strangers
    BY DEF Ours
  <1>2. CASE Turn \/ TurnWrongPin \/ GiveUp
    <2>1. "AuthDenied" \in Messages
      BY DEF Messages
    <2>2. PICK last \in Messages \cup {None} : HangUp({}, last) /\ UNCHANGED queue
      BY <1>2, <2>1 DEF Turn, TurnWrongPin, GiveUp
    <2>3. /\ served' = None /\ toHost' = None
          /\ client' \in [Attempts -> AttemptType]
          /\ \A a \in Attempts : client'[a].silent => client'[a].inbox = None
          /\ \A a \in Attempts : a # served => client'[a] = client[a]
      BY <2>2, HangingUp
    <2>4. \A i \in DOMAIN queue : client'[queue[i].attempt] = client[queue[i].attempt]
      BY <2>3, QueueElements DEF Backlog
    <2>5. \A i \in DOMAIN queue : queue[i].attempt # None
      BY QueueElements
    <2> QED
      BY <1>1, <2>2, <2>3, <2>4, <2>5 DEF AdmissionTypeOK, Backlog, Line
  <1>3. CASE GoDown
    <2>1. HangUp({line.attempt : line \in ToSet(queue)}, None) /\ queue' = <<>>
      BY <1>3 DEF GoDown
    <2>2. /\ served' = None /\ toHost' = None
          /\ client' \in [Attempts -> AttemptType]
          /\ \A a \in Attempts : client'[a].silent => client'[a].inbox = None
      BY <2>1, HangingUp
    <2>3. <<>> \in Seq([attempt : Attempts, pin : Pins]) /\ DOMAIN <<>> = {}
      OBVIOUS
    <2> QED
      BY <1>1, <2>1, <2>2, <2>3 DEF AdmissionTypeOK, Backlog, Line
  <1> QED
    BY <1>2, <1>3 DEF Ours

\* The first connection of the backlog becomes the host's client.
LEMMA AcceptStep ==
    ASSUME EInv, Ours(Accept)
    PROVE  EInv'
  <1> USE DEF EInv
  <1>1. /\ queue # <<>> /\ phase = "listening" /\ phase' = "hello"
        /\ served' = Head(queue).attempt /\ queue' = Tail(queue)
        /\ UNCHANGED <<client, toHost, strangers>>
        /\ ~ strangers
    BY DEF Ours, Accept, Connect
  <1>2. queue \in Seq([attempt : Attempts, pin : Pins])
    BY DEF AdmissionTypeOK
  <1>3. /\ Head(queue) = queue[1] /\ 1 \in DOMAIN queue
        /\ queue' \in Seq([attempt : Attempts, pin : Pins])
        /\ \A i \in DOMAIN queue' : i + 1 \in DOMAIN queue /\ queue'[i] = queue[i + 1]
        /\ DOMAIN queue' \subseteq Nat
    BY <1>1, <1>2, HeadTailProperties, QueueElements, LenProperties
  <1>4. served' = queue[1].attempt /\ served' \in Attempts /\ Pristine(client[served'])
    BY <1>1, <1>3, QueueElements DEF Backlog
  <1>5. AdmissionTypeOK'
    BY <1>1, <1>3, <1>4 DEF AdmissionTypeOK
  <1>6. Backlog'
    <2>1. \A i \in DOMAIN queue' : Pristine(client'[queue'[i].attempt])
      BY <1>1, <1>3 DEF Backlog
    <2>2. \A i \in DOMAIN queue' : queue'[i].attempt # served'
      <3> SUFFICES ASSUME NEW i \in DOMAIN queue', queue'[i].attempt = served' PROVE FALSE
        OBVIOUS
      <3>1. queue[i + 1].attempt = queue[1].attempt /\ i + 1 \in DOMAIN queue
        BY <1>3, <1>4
      <3>2. i + 1 = 1
        BY <1>3, <3>1 DEF Backlog
      <3>3. i \in 1..Len(queue')
        BY <1>3, LenProperties
      <3> QED
        BY <3>2, <3>3
    <2>3. ASSUME NEW i \in DOMAIN queue', NEW j \in DOMAIN queue',
                 queue'[i].attempt = queue'[j].attempt
          PROVE  i = j
      <3>1. i + 1 = j + 1
        BY <1>3, <2>3 DEF Backlog
      <3> QED
        BY <1>3, <3>1
    <2> QED
      BY <2>1, <2>2, <2>3 DEF Backlog
  <1>7. Line'
    BY <1>1, <1>4 DEF Line, InStep, Pristine
  <1> QED
    BY <1>5, <1>6, <1>7

\* Whatever happens next to the clients: the host's process and its session.
LEMMA ApartStep ==
    ASSUME EInv, Ours(Apart)
    PROVE  EInv'
  <1> USE DEF EInv
  <1>1. UNCHANGED <<client, queue, served, toHost, strangers>>
    BY DEF Ours, Apart
  <1>2. phase' # phase => phase = "sharing" /\ phase' = "connected"
    BY DEF Ours, Apart, clientVars, CaptureOpens, Disconnect, AskToStop, Start
  <1>3. served # None => InStep(client[served])'
    BY <1>1, <1>2 DEF Line, InStep, Heard, Session
  <1>4. AdmissionTypeOK' /\ Backlog'
    BY <1>1 DEF AdmissionTypeOK, Backlog
  <1>5. Line'
    BY <1>1, <1>2, <1>3 DEF Line
  <1> QED
    BY <1>4, <1>5

LEMMA AdmissionInductive == EInv /\ [AdmissionNext]_admissionVars => EInv'
  <1> SUFFICES ASSUME EInv, [AdmissionNext]_admissionVars PROVE EInv'
    OBVIOUS
  <1>1. CASE Strangers
    <2>1. strangers /\ UNCHANGED attemptVars
      BY <1>1 DEF Strangers
    <2> QED
      BY <2>1 DEF EInv, AdmissionTypeOK, Backlog, Line, attemptVars
  <1>2. CASE Ours(Clients)
    <2>1. ASSUME NEW a \in Attempts, Ours(Open(a)) PROVE EInv'
      BY <2>1, OpenStep
    <2>2. ASSUME NEW a \in Attempts, Ours(Greet(a) \/ Thread(a) \/ Leave(a) \/ FallSilent(a))
          PROVE  EInv'
      BY <2>2, AttemptStep
    <2>3. CASE Ours(Quit)
      BY <2>3, QuitStep
    <2>4. CASE Ours(Acknowledge \/ Exchange \/ Judge \/ Confirm)
      BY <2>4, HandshakeStep
    <2>5. CASE Ours(Turn \/ TurnWrongPin \/ GiveUp \/ GoDown)
      BY <2>5, HangUpStep
    <2>6. CASE Ours(Accept)
      BY <2>6, AcceptStep
    <2>7. CASE Ours(Apart)
      BY <2>7, ApartStep
    <2> QED
      BY <1>2, <2>1, <2>2, <2>3, <2>4, <2>5, <2>6, <2>7 DEF Ours, Clients
  <1>3. CASE UNCHANGED admissionVars
    BY <1>3 DEF admissionVars, attemptVars, vars, clientVars, EInv, AdmissionTypeOK, Backlog, Line, InStep, Heard
  <1> QED
    BY <1>1, <1>2, <1>3 DEF AdmissionNext

\* A client takes part only in a session that the host has begun with it,
\* after both proved the same PIN, and the host begins none with a client that
\* has not said all of the handshake: whatever is left, lost, refused, queued
\* or closed meanwhile (session() in the client, handle_client in the host).
THEOREM BothEndsAgree == AdmissionSpec => []EndsAgree
  <1>1. ASSUME EInv, Recent PROVE EndsAgree
    <2>1. ASSUME NEW a \in Attempts, client[a].at = "in", served = a
          PROVE  phase \in Session /\ guess = pinRead
      <3>1. served # None
        BY <2>1, AttemptsAssumption
      <3>2. InStep(client[a])
        BY <1>1, <2>1, <3>1 DEF EInv, Line
      <3>3. phase \in Session
        BY <2>1, <3>2 DEF InStep
      <3> QED
        BY <1>1, <3>3 DEF Recent
    <2>2. ASSUME served # None, phase \in Session
          PROVE  \/ client[served].at = "in"
                 \/ /\ client[served].at = "confirm"
                    /\ client[served].inbox = "AuthConfirm" \/ client[served].silent
      BY <1>1, <2>2 DEF EInv, Line, InStep, Heard, Session
    <2> QED
      BY <2>1, <2>2 DEF EndsAgree
  <1> QED
    BY <1>1, AdmissionInitInvariant, AdmissionInductive, ImplementsHostAccess, RecentAlways, PTL
    DEF AdmissionSpec

\* What HostAccess promises of one host holds with all its clients around it:
\* no guess is cheaper, nobody is judged by a PIN of yesterday and the bar
\* tells the truth, whoever connects, leaves or falls silent.
THEOREM PromisesOfTheHostHold ==
    AdmissionSpec => [](GuessRate /\ JudgedByRecentPin /\ StatusIsTruthful)
  BY ImplementsHostAccess, GuessesAreRare, JudgedByTheSettings, TheBarIsTruthful, PTL

=============================================================================
