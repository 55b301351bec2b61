--------------------------- MODULE SipAgent_proofs ---------------------------
(***************************************************************************)
(* What holds of the registration with the platform for every number of    *)
(* restarts, every range of cseq_, and with or without an application      *)
(* thread.  The inductive invariant is SipInv of SipAgent: the types, the  *)
(* phases of the two threads, the order in which the two registered_ flags *)
(* are set and reset, and the chain of keepalive waits.                    *)
(***************************************************************************)
EXTENDS SipAgent, TLAPS

\* Sending, whether or not the agent runs, keeps the types of what it changes.
LEMMA SendingTypes ==
  ASSUME TypeOK, Sends \/ SendRegister
  PROVE  cseq' \in 0..(CSeqs - 1) /\ asked' \in BOOLEAN
<1>1. CASE Sends
  <2>1. cseq' \in 0..(CSeqs - 1)
    BY <1>1, ConstantsAssumption DEF ConstantsAssumption, TypeOK, Sends
  <2>2. asked' \in BOOLEAN
    BY <1>1 DEF TypeOK, Sends
  <2> QED BY <2>1, <2>2
<1>2. CASE UNCHANGED sendVars
  BY <1>2 DEF TypeOK, sendVars
<1> QED BY <1>1, <1>2 DEF SendRegister

\* The types are inductive.
LEMMA TypeStep ==
  ASSUME TypeOK, [Next]_vars
  PROVE  TypeOK'
<1> USE DEF TypeOK
<1>1. CASE StartTransport
  BY <1>1, ConstantsAssumption DEF StartTransport, sendVars, timerVars,
       retryVars, ConstantsAssumption
<1>2. CASE StartRegisters
  <2>1. Sends BY <1>2 DEF StartRegisters
  <2>2. cseq' \in 0..(CSeqs - 1) /\ asked' \in BOOLEAN BY <2>1, SendingTypes
  <2> QED BY <1>2, <2>2 DEF StartRegisters, timerVars,
       retryVars
<1>3. CASE StopBegins
  BY <1>3 DEF StopBegins, sendVars, timerVars, retryVars
<1>4. CASE StopUnregisters
  <2>1. Sends BY <1>4 DEF StopUnregisters
  <2>2. cseq' \in 0..(CSeqs - 1) /\ asked' \in BOOLEAN BY <2>1, SendingTypes
  <2> QED BY <1>4, <2>2 DEF StopUnregisters, agentVars,
       timerVars, retryVars
<1>5. CASE StopCloses
  BY <1>5 DEF StopCloses, sendVars
<1>6. CASE StopJoins
  BY <1>6 DEF StopJoins, agentVars, sendVars, timerVars,
       retryVars
<1>7. CASE RegisterOk
  BY <1>7 DEF RegisterOk, Receives, Serves, mainVars,
       agentVars, sendVars, retryVars
<1>8. CASE KeepaliveFires
  <2>1. SendRegister BY <1>8 DEF KeepaliveFires
  <2>2. cseq' \in 0..(CSeqs - 1) /\ asked' \in BOOLEAN BY <2>1, SendingTypes
  <2> QED BY <1>8, <2>2, ConstantsAssumption DEF KeepaliveFires, Serves,
       mainVars, agentVars, retryVars, ConstantsAssumption
<1>9. CASE HandleAuthentication
  <2>1. SendRegister BY <1>9 DEF HandleAuthentication
  <2>2. cseq' \in 0..(CSeqs - 1) /\ asked' \in BOOLEAN BY <2>1, SendingTypes
  <2> QED BY <1>9, <2>2 DEF HandleAuthentication, Receives,
       Serves, mainVars, agentVars, timerVars, retryVars
<1>10. CASE RegisterFailed
  BY <1>10 DEF RegisterFailed, Receives, Serves, mainVars,
       agentVars, sendVars, timerVars, retryVars
<1>11. CASE RegisterRetryTimerCallback
  <2>1. SendRegister BY <1>11 DEF RegisterRetryTimerCallback
  <2>2. cseq' \in 0..(CSeqs - 1) /\ asked' \in BOOLEAN BY <2>1, SendingTypes
  <2> QED BY <1>11, <2>2, ConstantsAssumption DEF RegisterRetryTimerCallback,
       Serves, mainVars, agentVars, ConstantsAssumption
<1>12. CASE OnMessage
  <2>1. SendRegister BY <1>12 DEF OnMessage
  <2>2. cseq' \in 0..(CSeqs - 1) /\ asked' \in BOOLEAN BY <2>1, SendingTypes
  <2> QED BY <1>12, <2>2 DEF OnMessage, Serves, mainVars,
       agentVars, timerVars, retryVars
<1>13. CASE KeepaliveStarts
  <2>1. SendRegister BY <1>13 DEF KeepaliveStarts
  <2>2. cseq' \in 0..(CSeqs - 1) /\ asked' \in BOOLEAN BY <2>1, SendingTypes
  <2> QED BY <1>13, <2>2 DEF KeepaliveStarts, mainVars,
       agentVars, timerVars, retryVars
<1>14. CASE KeepaliveArms
  BY <1>14 DEF KeepaliveArms, mainVars, agentVars, sendVars,
       retryVars
<1>15. CASE OnRegisterSuccess
  BY <1>15 DEF OnRegisterSuccess, Locked, mainVars,
       agentVars, sendVars, timerVars, retryVars
<1>16. CASE OnRegisterFailed
  BY <1>16 DEF OnRegisterFailed, Locked, mainVars,
       agentVars, sendVars, timerVars, retryVars
<1>17. CASE RetryArms
  BY <1>17 DEF RetryArms, mainVars, agentVars, sendVars
<1>18. CASE IoEnds
  BY <1>18 DEF IoEnds, mainVars, agentVars, sendVars,
       timerVars, retryVars
<1>19. CASE KeepaliveExpires
  <2>1. keepalive_due' \in 0..MaxDue
    BY <1>19, ConstantsAssumption DEF KeepaliveExpires, ConstantsAssumption
  <2>2. /\ keepalive' \in BOOLEAN
        /\ UNCHANGED <<mainVars, io, agentVars, registered, sendVars>>
        /\ UNCHANGED retryVars /\ UNCHANGED mgr_registered
    BY <1>19 DEF KeepaliveExpires
  <2> QED BY <2>1, <2>2 DEF mainVars, agentVars, sendVars, retryVars
<1>20. CASE RetryExpires
  <2>1. retry_due' \in 0..MaxDue
    BY <1>20, ConstantsAssumption DEF RetryExpires, ConstantsAssumption
  <2>2. /\ retry' \in BOOLEAN
        /\ UNCHANGED <<mainVars, io, agentVars, registered, sendVars>>
        /\ UNCHANGED <<keepalive, keepalive_due>> /\ UNCHANGED mgr_registered
    BY <1>20 DEF RetryExpires
  <2> QED BY <2>1, <2>2 DEF mainVars, agentVars, sendVars, retryVars
<1>21. CASE SendKeepalive
  <2>1. SendRegister BY <1>21 DEF SendKeepalive
  <2>2. cseq' \in 0..(CSeqs - 1) /\ asked' \in BOOLEAN BY <2>1, SendingTypes
  <2> QED BY <1>21, <2>2 DEF SendKeepalive, mainVars,
       agentVars, timerVars, retryVars
<1>22. CASE UNCHANGED vars
  BY <1>22 DEF vars, mainVars, agentVars, sendVars, timerVars, retryVars
<1> QED
  BY <1>1, <1>2, <1>3, <1>4, <1>5, <1>6, <1>7, <1>8, <1>9, <1>10, <1>11, <1>12,
       <1>13, <1>14, <1>15, <1>16, <1>17, <1>18, <1>19, <1>20, <1>21, <1>22
     DEF Next, Stop, IoTakesHandler, IoGoesOn

\* The phases of the two threads are inductive.
LEMMA PhasesStep ==
  ASSUME TypeOK, Phases, FlagsInv, [Next]_vars
  PROVE  Phases'
<1> USE DEF TypeOK, Phases, FlagsInv
<1>1. CASE StartTransport
  BY <1>1 DEF StartTransport, sendVars, timerVars, retryVars
<1>2. CASE StartRegisters
  BY <1>2 DEF StartRegisters, Sends, timerVars, retryVars
<1>3. CASE StopBegins
  BY <1>3 DEF StopBegins, sendVars, timerVars, retryVars
<1>4. CASE StopUnregisters
  BY <1>4 DEF StopUnregisters, Sends, agentVars, timerVars, retryVars
<1>5. CASE StopCloses
  BY <1>5 DEF StopCloses, sendVars
<1>6. CASE StopJoins
  BY <1>6 DEF StopJoins, agentVars, sendVars, timerVars, retryVars
<1>7. CASE RegisterOk
  BY <1>7 DEF RegisterOk, Receives, Serves, mainVars, agentVars, sendVars, retryVars
<1>8. CASE KeepaliveFires
  BY <1>8 DEF KeepaliveFires, Serves, SendRegister, Sends, mainVars, agentVars,
       sendVars, retryVars
<1>9. CASE HandleAuthentication
  BY <1>9 DEF HandleAuthentication, Receives, Serves, SendRegister, Sends,
       mainVars, agentVars, sendVars, timerVars, retryVars
<1>10. CASE RegisterFailed
  BY <1>10 DEF RegisterFailed, Receives, Serves, mainVars, agentVars, sendVars,
       timerVars, retryVars
<1>11. CASE RegisterRetryTimerCallback
  BY <1>11 DEF RegisterRetryTimerCallback, Serves, SendRegister, Sends, mainVars,
       agentVars, sendVars
<1>12. CASE OnMessage
  BY <1>12 DEF OnMessage, Serves, SendRegister, Sends, mainVars, agentVars,
       sendVars, timerVars, retryVars
<1>13. CASE KeepaliveStarts
  BY <1>13 DEF KeepaliveStarts, SendRegister, Sends, mainVars, agentVars,
       sendVars, timerVars, retryVars
<1>14. CASE KeepaliveArms
  BY <1>14 DEF KeepaliveArms, mainVars, agentVars, sendVars, retryVars
<1>15. CASE OnRegisterSuccess
  BY <1>15 DEF OnRegisterSuccess, Locked, mainVars, agentVars, sendVars,
       timerVars, retryVars
<1>16. CASE OnRegisterFailed
  BY <1>16 DEF OnRegisterFailed, Locked, mainVars, agentVars, sendVars,
       timerVars, retryVars
<1>17. CASE RetryArms
  BY <1>17 DEF RetryArms, mainVars, agentVars, sendVars
<1>18. CASE IoEnds
  BY <1>18 DEF IoEnds, mainVars, agentVars, sendVars, timerVars, retryVars
<1>19. CASE KeepaliveExpires
  BY <1>19 DEF KeepaliveExpires, mainVars, agentVars, sendVars, retryVars
<1>20. CASE RetryExpires
  BY <1>20 DEF RetryExpires, mainVars, agentVars, sendVars
<1>21. CASE SendKeepalive
  BY <1>21 DEF SendKeepalive, SendRegister, Sends, mainVars, agentVars, sendVars,
       timerVars, retryVars
<1>22. CASE UNCHANGED vars
  BY <1>22 DEF vars, mainVars, agentVars, sendVars, timerVars, retryVars
<1> QED
  BY <1>1, <1>2, <1>3, <1>4, <1>5, <1>6, <1>7, <1>8, <1>9, <1>10, <1>11, <1>12,
       <1>13, <1>14, <1>15, <1>16, <1>17, <1>18, <1>19, <1>20, <1>21, <1>22
     DEF Next, Stop, IoTakesHandler, IoGoesOn

\* The order of the two flags is inductive.
LEMMA FlagsStep ==
  ASSUME TypeOK, Phases, FlagsInv, [Next]_vars
  PROVE  FlagsInv'
<1> USE DEF TypeOK, Phases, FlagsInv
<1>1. CASE StartTransport
  BY <1>1 DEF StartTransport, sendVars, timerVars, retryVars
<1>2. CASE StartRegisters
  BY <1>2 DEF StartRegisters, Sends, timerVars, retryVars
<1>3. CASE StopBegins
  BY <1>3 DEF StopBegins, sendVars, timerVars, retryVars
<1>4. CASE StopUnregisters
  BY <1>4 DEF StopUnregisters, Sends, agentVars, timerVars, retryVars
<1>5. CASE StopCloses
  BY <1>5 DEF StopCloses, sendVars
<1>6. CASE StopJoins
  BY <1>6 DEF StopJoins, agentVars, sendVars, timerVars, retryVars
<1>7. CASE RegisterOk
  BY <1>7 DEF RegisterOk, Receives, Serves, mainVars, agentVars, sendVars, retryVars
<1>8. CASE KeepaliveFires
  BY <1>8 DEF KeepaliveFires, Serves, SendRegister, Sends, mainVars, agentVars,
       sendVars, retryVars
<1>9. CASE HandleAuthentication
  BY <1>9 DEF HandleAuthentication, Receives, Serves, SendRegister, Sends,
       mainVars, agentVars, sendVars, timerVars, retryVars
<1>10. CASE RegisterFailed
  BY <1>10 DEF RegisterFailed, Receives, Serves, mainVars, agentVars, sendVars,
       timerVars, retryVars
<1>11. CASE RegisterRetryTimerCallback
  BY <1>11 DEF RegisterRetryTimerCallback, Serves, SendRegister, Sends, mainVars,
       agentVars, sendVars
<1>12. CASE OnMessage
  BY <1>12 DEF OnMessage, Serves, SendRegister, Sends, mainVars, agentVars,
       sendVars, timerVars, retryVars
<1>13. CASE KeepaliveStarts
  BY <1>13 DEF KeepaliveStarts, SendRegister, Sends, mainVars, agentVars,
       sendVars, timerVars, retryVars
<1>14. CASE KeepaliveArms
  BY <1>14 DEF KeepaliveArms, mainVars, agentVars, sendVars, retryVars
<1>15. CASE OnRegisterSuccess
  BY <1>15 DEF OnRegisterSuccess, Locked, mainVars, agentVars, sendVars,
       timerVars, retryVars
<1>16. CASE OnRegisterFailed
  BY <1>16 DEF OnRegisterFailed, Locked, mainVars, agentVars, sendVars,
       timerVars, retryVars
<1>17. CASE RetryArms
  BY <1>17 DEF RetryArms, mainVars, agentVars, sendVars
<1>18. CASE IoEnds
  BY <1>18 DEF IoEnds, mainVars, agentVars, sendVars, timerVars, retryVars
<1>19. CASE KeepaliveExpires
  BY <1>19 DEF KeepaliveExpires, mainVars, agentVars, sendVars, retryVars
<1>20. CASE RetryExpires
  BY <1>20 DEF RetryExpires, mainVars, agentVars, sendVars
<1>21. CASE SendKeepalive
  BY <1>21 DEF SendKeepalive, SendRegister, Sends, mainVars, agentVars, sendVars,
       timerVars, retryVars
<1>22. CASE UNCHANGED vars
  BY <1>22 DEF vars, mainVars, agentVars, sendVars, timerVars, retryVars
<1> QED
  BY <1>1, <1>2, <1>3, <1>4, <1>5, <1>6, <1>7, <1>8, <1>9, <1>10, <1>11, <1>12,
       <1>13, <1>14, <1>15, <1>16, <1>17, <1>18, <1>19, <1>20, <1>21, <1>22
     DEF Next, Stop, IoTakesHandler, IoGoesOn

\* No step breaks the chain of keepalive waits.
LEMMA KeepaliveStep ==
  ASSUME TypeOK, Phases, FlagsInv, KeepaliveArmed, [Next]_vars
  PROVE  KeepaliveArmed'
<1> USE DEF TypeOK, Phases, FlagsInv, KeepaliveArmed
<1>1. CASE StartTransport
  BY <1>1 DEF StartTransport, sendVars, timerVars, retryVars
<1>2. CASE StartRegisters
  BY <1>2 DEF StartRegisters, Sends, timerVars, retryVars
<1>3. CASE StopBegins
  BY <1>3 DEF StopBegins, sendVars, timerVars, retryVars
<1>4. CASE StopUnregisters
  BY <1>4 DEF StopUnregisters, Sends, agentVars, timerVars, retryVars
<1>5. CASE StopCloses
  BY <1>5 DEF StopCloses, sendVars
<1>6. CASE StopJoins
  BY <1>6 DEF StopJoins, agentVars, sendVars, timerVars, retryVars
<1>7. CASE RegisterOk
  BY <1>7 DEF RegisterOk, Receives, Serves, mainVars, agentVars, sendVars, retryVars
<1>8. CASE KeepaliveFires
  BY <1>8 DEF KeepaliveFires, Serves, SendRegister, Sends, mainVars, agentVars,
       sendVars, retryVars
<1>9. CASE HandleAuthentication
  BY <1>9 DEF HandleAuthentication, Receives, Serves, SendRegister, Sends,
       mainVars, agentVars, sendVars, timerVars, retryVars
<1>10. CASE RegisterFailed
  BY <1>10 DEF RegisterFailed, Receives, Serves, mainVars, agentVars, sendVars,
       timerVars, retryVars
<1>11. CASE RegisterRetryTimerCallback
  BY <1>11 DEF RegisterRetryTimerCallback, Serves, SendRegister, Sends, mainVars,
       agentVars, sendVars
<1>12. CASE OnMessage
  BY <1>12 DEF OnMessage, Serves, SendRegister, Sends, mainVars, agentVars,
       sendVars, timerVars, retryVars
<1>13. CASE KeepaliveStarts
  BY <1>13 DEF KeepaliveStarts, SendRegister, Sends, mainVars, agentVars,
       sendVars, timerVars, retryVars
<1>14. CASE KeepaliveArms
  BY <1>14 DEF KeepaliveArms, mainVars, agentVars, sendVars, retryVars
<1>15. CASE OnRegisterSuccess
  BY <1>15 DEF OnRegisterSuccess, Locked, mainVars, agentVars, sendVars,
       timerVars, retryVars
<1>16. CASE OnRegisterFailed
  BY <1>16 DEF OnRegisterFailed, Locked, mainVars, agentVars, sendVars,
       timerVars, retryVars
<1>17. CASE RetryArms
  BY <1>17 DEF RetryArms, mainVars, agentVars, sendVars
<1>18. CASE IoEnds
  BY <1>18 DEF IoEnds, mainVars, agentVars, sendVars, timerVars, retryVars
<1>19. CASE KeepaliveExpires
  BY <1>19 DEF KeepaliveExpires, mainVars, agentVars, sendVars, retryVars
<1>20. CASE RetryExpires
  BY <1>20 DEF RetryExpires, mainVars, agentVars, sendVars
<1>21. CASE SendKeepalive
  BY <1>21 DEF SendKeepalive, SendRegister, Sends, mainVars, agentVars, sendVars,
       timerVars, retryVars
<1>22. CASE UNCHANGED vars
  BY <1>22 DEF vars, mainVars, agentVars, sendVars, timerVars, retryVars
<1> QED
  BY <1>1, <1>2, <1>3, <1>4, <1>5, <1>6, <1>7, <1>8, <1>9, <1>10, <1>11, <1>12,
       <1>13, <1>14, <1>15, <1>16, <1>17, <1>18, <1>19, <1>20, <1>21, <1>22
     DEF Next, Stop, IoTakesHandler, IoGoesOn

\* The inductive invariant.
LEMMA SipInvariant == Spec => []SipInv
<1>1. Init => SipInv
  <2>1. ASSUME Init PROVE TypeOK
    <3>1. cseq \in 0..(CSeqs - 1) /\ 0 \in 0..MaxDue /\ 0 \in 0..(Restarts + 1)
      BY <2>1, ConstantsAssumption DEF ConstantsAssumption, Init
    <3> QED BY <2>1, <3>1 DEF Init, TypeOK
  <2> QED BY <2>1 DEF Init, SipInv, Phases, FlagsInv, KeepaliveArmed
<1>2. SipInv /\ [Next]_vars => SipInv'
  BY TypeStep, PhasesStep, FlagsStep, KeepaliveStep DEF SipInv
<1> QED BY <1>1, <1>2, PTL DEF Spec

\* The variables keep their types.
THEOREM SipTyping == Spec => []TypeOK
<1>1. SipInv => TypeOK
  BY DEF SipInv
<1> QED BY <1>1, SipInvariant, PTL

\* What Stop leaves behind once it has returned.
THEOREM StoppedIsQuietHolds == Spec => []StoppedIsQuiet
<1>1. SipInv => StoppedIsQuiet
  BY DEF SipInv, Phases, FlagsInv, StoppedIsQuiet
<1> QED BY <1>1, SipInvariant, PTL

\* A registered agent that runs always has a keepalive coming.
THEOREM KeepaliveArmedHolds == Spec => []KeepaliveArmed
<1>1. SipInv => KeepaliveArmed
  BY DEF SipInv
<1> QED BY <1>1, SipInvariant, PTL

\* The manager's flag is never seen set when the agent's is not.
THEOREM ManagerNotAheadHolds == Spec => []ManagerNotAhead
<1>1. SipInv => ManagerNotAhead
  BY DEF SipInv, TypeOK, FlagsInv, ManagerNotAhead, Locked
<1> QED BY <1>1, SipInvariant, PTL
=============================================================================
