-------------------------- MODULE AuthSessionProofs --------------------------
(***************************************************************************)
(* Proofs about AuthSession, for any number of processes, of commands, of  *)
(* changes of the key, and any life of a lease.                            *)
(***************************************************************************)
EXTENDS AuthSession, FiniteSetTheorems, TLAPS

AccountSteps == {"load", "check", "fetch", "openkey", "writekey", "verify", "refresh",
                 "checkfresh", "opensess", "writesess"}
LoginSteps == {"device", "writedevice", "decode", "exchange", "trusted", "fetch", "openkey",
               "writekey", "opensess", "writesess"}

\* Each command goes through its own steps.
KindInv ==
    /\ pc \in [Procs -> {"idle", "clear"} \union AccountSteps \union LoginSteps]
    /\ kind \in [Procs -> Kinds]
    /\ \A p \in Procs :
          /\ kind[p] = "account" => pc[p] \in {"idle"} \union AccountSteps
          /\ kind[p] \in {"login", "activate"} => pc[p] \in {"idle"} \union LoginSteps
          /\ kind[p] = "logout" => pc[p] \in {"idle", "clear"}

\* A lease the portal has signed, with a key it had by then.
Signed(lease) == lease \in Leases /\ lease.key <= portalKey
Known(k) == k \in KeyIds /\ k <= portalKey

\* The process has the session that it checks, or the one it is going to save.
HasHeld(p) ==
    kind[p] = "account" /\ pc[p] \in AccountSteps \ {"load", "opensess", "writesess"}
HasFresh(p) ==
    \/ kind[p] = "account" /\ pc[p] \in {"checkfresh", "opensess", "writesess"}
    \/ kind[p] # "account" /\ pc[p] \in LoginSteps \ {"device"}

\* The install ids and the logins are numbered, at most one per command: as
\* many commands as have not had theirs may still get one.
Unread == {p \in Procs : pc[p] = "device"}
Unanswered == {p \in Procs : pc[p] \in {"device", "writedevice", "decode", "exchange"}}
Count ==
    /\ commands \in 0..MaxCommands /\ ids \in Nat /\ logins \in Nat
    /\ IsFiniteSet(Unread) /\ ids + Cardinality(Unread) <= commands
    /\ IsFiniteSet(Unanswered) /\ logins + Cardinality(Unanswered) <= commands

Values ==
    /\ portalKey \in KeyIds /\ clock \in 0..MaxClock
    /\ sess = None \/ Signed(sess)
    /\ localKey = None \/ Known(localKey)
    /\ device \in 1..MaxCommands \union {None}
    /\ held = [p \in Procs |-> held[p]] /\ fresh = [p \in Procs |-> fresh[p]]
    /\ got = [p \in Procs |-> got[p]]
    /\ \A p \in Procs :
          /\ got[p] = None \/ Known(got[p])
          /\ HasHeld(p) => Signed(held[p])
          /\ HasFresh(p) => Signed(fresh[p])

-----------------------------------------------------------------------------
(* The command that no other overlaps. *)

AloneInv ==
    /\ alone \in Procs \union {None}
    /\ alone # None => \A q \in Procs \ {alone} : pc[q] = "idle"

\* A command of the guard keeps the session until the refreshed lease was
\* verified; a key that it fetched is no older than the lease that it checks.
AccountInv(p) ==
    /\ pc[p] \in AccountSteps \ {"opensess", "writesess"} => sess = before[1]
    /\ pc[p] \in {"openkey", "writekey"} => got[p] # None /\ held[p].key <= got[p]
    /\ pc[p] = "verify" => localKey # None /\ held[p].key <= localKey
    /\ pc[p] = "refresh" => Verifies(held[p])
    /\ pc[p] = "checkfresh" => Verifies(held[p]) /\ localKey <= fresh[p].key
    /\ pc[p] = "idle" /\ result \in {"signature", "error", "missing"} => sess = before[1]
    /\ pc[p] = "idle" /\ result = "signature" => held[p].key \in Nat /\ held[p].key < portalKey

\* A login touches neither session nor key before it has an answer; then its
\* session is bound to the device and comes with a key that is no older.
LoginInv(p) ==
    /\ pc[p] \in {"device", "writedevice", "decode", "exchange", "fetch"} => <<sess, localKey>> = before
    /\ pc[p] \in LoginSteps \ {"device", "writedevice"} => fresh[p].install = device
    /\ pc[p] \in {"trusted", "fetch", "openkey", "writekey", "opensess", "writesess"} =>
          fresh[p].login = logins
    /\ pc[p] = "trusted" => Verifies(fresh[p])
    /\ pc[p] \in {"openkey", "writekey"} => got[p] # None /\ fresh[p].key <= got[p]
    /\ pc[p] \in {"opensess", "writesess"} => localKey # None /\ fresh[p].key <= localKey
    /\ pc[p] = "idle" /\ result = "error" => <<sess, localKey>> = before
    /\ pc[p] = "idle" /\ result = "ok" =>
          /\ sess # None /\ sess.login = logins /\ sess.install = device
          /\ localKey # None /\ sess.key <= localKey

LoneInv ==
    alone # None =>
       /\ kind[alone] = "account" => AccountInv(alone)
       /\ kind[alone] \in {"login", "activate"} => LoginInv(alone)
       /\ kind[alone] = "logout" /\ pc[alone] = "idle" => sess = None

Typed == KindInv /\ Count /\ Values
IInv == Typed /\ AloneInv /\ LoneInv

-----------------------------------------------------------------------------
(* Each part is kept by every step, from the parts before it. *)

\* A process that has not had its install id, or its login, can still number one.
LEMMA NumbersLeft ==
    ASSUME Count, NEW p \in Procs
    PROVE  /\ pc[p] = "device" => ids + 1 \in 1..MaxCommands
           /\ pc[p] \in {"device", "writedevice", "decode", "exchange"} => logins + 1 \in 1..MaxCommands
<1>1. ASSUME NEW S, IsFiniteSet(S), NEW n \in Nat, n + Cardinality(S) <= commands, p \in S
      PROVE  n + 1 \in 1..MaxCommands
  <2>1. Cardinality(S) \in Nat /\ Cardinality(S) # 0
    BY <1>1, FS_EmptySet, FS_CardinalityType
  <2> QED
    BY <1>1, <2>1, AuthAssumption DEF Count
<1> QED
  BY <1>1 DEF Count, Unread, Unanswered

\* A process goes from one step of its command to another.
LEMMA KindStep ==
    ASSUME KindInv, [Next]_vars
    PROVE  KindInv'
<1> USE DEF KindInv, Kinds, AccountSteps, LoginSteps
<1>1. ASSUME NEW p \in Procs, Load(p) PROVE KindInv'
  BY <1>1 DEF Load, Goto, End, files, portal, local, ghosts, counters
<1>2. ASSUME NEW p \in Procs, CheckKey(p) PROVE KindInv'
  BY <1>2 DEF CheckKey, Goto, files, portal, local, ghosts, counters
<1>3. ASSUME NEW p \in Procs, FetchKey(p) PROVE KindInv'
  BY <1>3 DEF FetchKey, Goto, files, portal, local, ghosts, counters
<1>4. ASSUME NEW p \in Procs, RequestFails(p) PROVE KindInv'
  BY <1>4 DEF RequestFails, Goto, End, files, portal, local, ghosts, counters
<1>5. ASSUME NEW p \in Procs, OpenKey(p) PROVE KindInv'
  BY <1>5 DEF OpenKey, Goto, files, portal, local, ghosts, counters
<1>6. ASSUME NEW p \in Procs, WriteKey(p) PROVE KindInv'
  BY <1>6 DEF WriteKey, Goto, files, portal, local, ghosts, counters
<1>7. ASSUME NEW p \in Procs, Verify(p) PROVE KindInv'
  BY <1>7 DEF Verify, Goto, End, files, portal, local, ghosts, counters
<1>8. ASSUME NEW p \in Procs, Refresh(p) PROVE KindInv'
  BY <1>8 DEF Refresh, Goto, files, portal, local, ghosts, counters
<1>9. ASSUME NEW p \in Procs, CheckRefreshed(p) PROVE KindInv'
  BY <1>9 DEF CheckRefreshed, Goto, End, files, portal, local, ghosts, counters
<1>10. ASSUME NEW p \in Procs, OpenSession(p) PROVE KindInv'
  BY <1>10 DEF OpenSession, Goto, files, portal, local, ghosts, counters
<1>11. ASSUME NEW p \in Procs, WriteSession(p) PROVE KindInv'
  BY <1>11 DEF WriteSession, Goto, End, files, portal, local, ghosts, counters
<1>12. ASSUME NEW p \in Procs, ReadDevice(p) PROVE KindInv'
  BY <1>12 DEF ReadDevice, Goto, files, portal, local, ghosts, counters
<1>13. ASSUME NEW p \in Procs, WriteDevice(p) PROVE KindInv'
  BY <1>13 DEF WriteDevice, Goto, files, portal, local, ghosts, counters
<1>14. ASSUME NEW p \in Procs, Exchange(p) PROVE KindInv'
  BY <1>14 DEF Exchange, Goto, files, portal, local, ghosts, counters
<1>15. ASSUME NEW p \in Procs, Decode(p) PROVE KindInv'
  BY <1>15 DEF Decode, Goto, End, files, portal, local, ghosts, counters
<1>16. ASSUME NEW p \in Procs, ReadTrusted(p) PROVE KindInv'
  BY <1>16 DEF ReadTrusted, Goto, files, portal, local, ghosts, counters
<1>17. ASSUME NEW p \in Procs, Logout(p) PROVE KindInv'
  BY <1>17 DEF Logout, Goto, End, files, portal, local, ghosts, counters
<1>18. ASSUME NEW p \in Procs, Kill(p) PROVE KindInv'
  BY <1>18 DEF Kill, Goto, End, files, portal, local, ghosts, counters
<1>19. ASSUME NEW p \in Procs, NEW k \in Kinds, Start(p, k) PROVE KindInv'
  BY <1>19 DEF Start, Goto, FirstStep, files, portal, local, ghosts, counters
<1>20. ASSUME Rotate PROVE KindInv'
  BY <1>20 DEF Rotate, files, portal, local, ghosts, counters
<1>21. ASSUME Tick PROVE KindInv'
  BY <1>21 DEF Tick, files, portal, local, ghosts, counters
<1>22. CASE UNCHANGED vars
  BY <1>22 DEF vars, files, portal, local, ghosts, counters
<1> HIDE DEF KindInv, Kinds, AccountSteps, LoginSteps
<1> QED
  BY <1>1, <1>2, <1>3, <1>4, <1>5, <1>6, <1>7, <1>8, <1>9, <1>10, <1>11, <1>12, <1>13, <1>14,
     <1>15, <1>16, <1>17, <1>18, <1>19, <1>20, <1>21, <1>22
  DEF Next, Step

\* Leases and keys come from the portal, whose key only gets newer.
LEMMA ValuesStep ==
    ASSUME KindInv, Count, Values, [Next]_vars
    PROVE  Values'
<1> USE DEF KindInv, Values, Kinds, AccountSteps, LoginSteps, Signed, Known, HasHeld, HasFresh,
    Leases, KeyIds
<1>1. ASSUME NEW p \in Procs, Load(p) PROVE Values'
  <2>1. held' = [held EXCEPT ![p] = sess] /\ UNCHANGED <<sess, localKey, device, portal, kind, fresh, got>>
    BY <1>1 DEF Load, End, files
  <2>2. pc'[p] \in {"idle", "check"} /\ (pc'[p] = "check" => sess # None)
    BY <1>1 DEF Load, Goto, End
  <2>3. \A q \in Procs \ {p} : pc'[q] = pc[q] /\ held'[q] = held[q]
    BY <1>1, <2>1 DEF Load, Goto, End
  <2> QED
    BY <2>1, <2>2, <2>3 DEF portal
<1>2. ASSUME NEW p \in Procs, CheckKey(p) PROVE Values'
  BY <1>2 DEF CheckKey, Goto, files, portal, local, ghosts, counters
<1>3. ASSUME NEW p \in Procs, FetchKey(p) PROVE Values'
  BY <1>3 DEF FetchKey, Goto, files, portal, local, ghosts, counters
<1>4. ASSUME NEW p \in Procs, RequestFails(p) PROVE Values'
  BY <1>4 DEF RequestFails, Goto, End, files, portal, local, ghosts, counters
<1>5. ASSUME NEW p \in Procs, OpenKey(p) PROVE Values'
  BY <1>5 DEF OpenKey, Goto, files, portal, local, ghosts, counters
<1>6. ASSUME NEW p \in Procs, WriteKey(p) PROVE Values'
  BY <1>6 DEF WriteKey, Goto, files, portal, local, ghosts, counters
<1>7. ASSUME NEW p \in Procs, Verify(p) PROVE Values'
  BY <1>7 DEF Verify, Goto, End, files, portal, local, ghosts, counters
<1>8. ASSUME NEW p \in Procs, Refresh(p) PROVE Values'
  <2> DEFINE renewed == [held[p] EXCEPT !.key = portalKey, !.exp = clock + Life]
  <2>1. clock + Life \in 0..(MaxClock + Life) /\ held[p] \in Leases
    BY <1>8, AuthAssumption DEF Refresh
  <2>2. renewed \in Leases /\ renewed.key = portalKey
    BY <2>1
  <2>3. Signed(renewed)
    BY <2>2, AuthAssumption
  <2>4. fresh' = [fresh EXCEPT ![p] = renewed]
    BY <1>8 DEF Refresh
  <2> HIDE DEF renewed
  <2> QED
    BY <1>8, <2>3, <2>4 DEF Refresh, Goto, files, portal
<1>9. ASSUME NEW p \in Procs, CheckRefreshed(p) PROVE Values'
  BY <1>9 DEF CheckRefreshed, Goto, End, files, portal, local, ghosts, counters
<1>10. ASSUME NEW p \in Procs, OpenSession(p) PROVE Values'
  BY <1>10 DEF OpenSession, Goto, files, portal, local, ghosts, counters
<1>11. ASSUME NEW p \in Procs, WriteSession(p) PROVE Values'
  BY <1>11 DEF WriteSession, Goto, End, files, portal, local, ghosts, counters
<1>12. ASSUME NEW p \in Procs, ReadDevice(p) PROVE Values'
  <2>1. PICK id \in ({device} \ {None}) \union {ids + 1} :
          fresh' = [fresh EXCEPT ![p] = [key |-> 0, exp |-> 0, login |-> 0, install |-> id]]
    BY <1>12 DEF ReadDevice
  <2>2. id \in 1..MaxCommands
    BY <1>12, NumbersLeft DEF ReadDevice
  <2>3. Signed([key |-> 0, exp |-> 0, login |-> 0, install |-> id])
    BY <2>2, AuthAssumption
  <2> QED
    BY <1>12, <2>1, <2>3 DEF ReadDevice, Goto, files, portal
<1>13. ASSUME NEW p \in Procs, WriteDevice(p) PROVE Values'
  BY <1>13 DEF WriteDevice, Goto, files, portal, local, ghosts, counters
<1>14. ASSUME NEW p \in Procs, Exchange(p) PROVE Values'
  <2> DEFINE lease == [key |-> portalKey, exp |-> clock + Life, login |-> logins + 1, install |-> fresh[p].install]
  <2>1. clock + Life \in 0..(MaxClock + Life) /\ logins + 1 \in 0..MaxCommands
    BY <1>14, NumbersLeft, AuthAssumption DEF Exchange
  <2>2. fresh[p].install \in 1..MaxCommands
    BY <1>14 DEF Exchange
  <2>3. Signed(lease) /\ Known(portalKey)
    BY <2>1, <2>2, AuthAssumption
  <2>4. fresh' = [fresh EXCEPT ![p] = lease] /\ (got' = got \/ got' = [got EXCEPT ![p] = portalKey])
    BY <1>14 DEF Exchange
  <2> HIDE DEF lease
  <2> QED
    BY <1>14, <2>3, <2>4 DEF Exchange, Goto, files, portal
<1>15. ASSUME NEW p \in Procs, Decode(p) PROVE Values'
  <2>1. CASE UNCHANGED fresh
    <3>1. UNCHANGED <<files, portal, kind, held, got>>
      BY <1>15 DEF Decode
    <3>2. \A q \in Procs \ {p} : pc'[q] = pc[q]
      BY <1>15 DEF Decode, Goto, End
    <3>3. pc[p] = "decode" /\ pc'[p] \in {"exchange", "idle", "trusted"}
      BY <1>15 DEF Decode, Goto, End
    <3> QED
      BY <2>1, <3>1, <3>2, <3>3 DEF files, portal
  <2>2. ASSUME NEW k \in 0..portalKey, NEW exp \in {0, clock + Life},
               fresh' = [fresh EXCEPT ![p] =
                 [key |-> k, exp |-> exp, login |-> logins + 1, install |-> fresh[p].install]]
        PROVE  Values'
    <3>1. exp \in 0..(MaxClock + Life) /\ logins + 1 \in 0..MaxCommands /\ k \in KeyIds
      BY <1>15, NumbersLeft, AuthAssumption DEF Decode
    <3>2. fresh[p].install \in 1..MaxCommands
      BY <1>15 DEF Decode
    <3>3. Signed([key |-> k, exp |-> exp, login |-> logins + 1, install |-> fresh[p].install])
      BY <3>1, <3>2
    <3>4. UNCHANGED <<files, portal, kind, held, got>>
      BY <1>15 DEF Decode
    <3>5. \A q \in Procs \ {p} : pc'[q] = pc[q]
      BY <1>15 DEF Decode, Goto, End
    <3>6. pc'[p] \in {"exchange", "idle", "trusted"}
      BY <1>15 DEF Decode, Goto, End
    <3> QED
      BY <2>2, <3>3, <3>4, <3>5, <3>6 DEF files, portal
  <2> QED
    BY <1>15, <2>1, <2>2 DEF Decode
<1>16. ASSUME NEW p \in Procs, ReadTrusted(p) PROVE Values'
  BY <1>16 DEF ReadTrusted, Goto, files, portal, local, ghosts, counters
<1>17. ASSUME NEW p \in Procs, Logout(p) PROVE Values'
  BY <1>17 DEF Logout, Goto, End, files, portal, local, ghosts, counters
<1>18. ASSUME NEW p \in Procs, Kill(p) PROVE Values'
  BY <1>18 DEF Kill, Goto, End, files, portal, local, ghosts, counters
<1>19. ASSUME NEW p \in Procs, NEW k \in Kinds, Start(p, k) PROVE Values'
  BY <1>19 DEF Start, Goto, FirstStep, files, portal, local, ghosts, counters
<1>20. ASSUME Rotate PROVE Values'
  BY <1>20, AuthAssumption DEF Rotate, files, portal, local, ghosts, counters
<1>21. ASSUME Tick PROVE Values'
  BY <1>21, AuthAssumption DEF Tick, files, portal, local, ghosts, counters
<1>22. CASE UNCHANGED vars
  BY <1>22 DEF vars, files, portal, local, ghosts, counters
<1> HIDE DEF KindInv, Values, Kinds, AccountSteps, LoginSteps, Signed, Known, HasHeld, HasFresh,
    Leases, KeyIds
<1> QED
  BY <1>1, <1>2, <1>3, <1>4, <1>5, <1>6, <1>7, <1>8, <1>9, <1>10, <1>11, <1>12, <1>13, <1>14,
     <1>15, <1>16, <1>17, <1>18, <1>19, <1>20, <1>21, <1>22
  DEF Next, Step

\* A command that begins beside another one leaves neither alone.
LEMMA AloneStep ==
    ASSUME KindInv, AloneInv, [Next]_vars
    PROVE  AloneInv'
<1> USE DEF KindInv, AloneInv, Running
<1>1. ASSUME NEW p \in Procs, Load(p) PROVE AloneInv'
  BY <1>1 DEF Load, Goto, End, files, portal, local, ghosts, counters
<1>2. ASSUME NEW p \in Procs, CheckKey(p) PROVE AloneInv'
  BY <1>2 DEF CheckKey, Goto, files, portal, local, ghosts, counters
<1>3. ASSUME NEW p \in Procs, FetchKey(p) PROVE AloneInv'
  BY <1>3 DEF FetchKey, Goto, files, portal, local, ghosts, counters
<1>4. ASSUME NEW p \in Procs, RequestFails(p) PROVE AloneInv'
  BY <1>4 DEF RequestFails, Goto, End, files, portal, local, ghosts, counters
<1>5. ASSUME NEW p \in Procs, OpenKey(p) PROVE AloneInv'
  BY <1>5 DEF OpenKey, Goto, files, portal, local, ghosts, counters
<1>6. ASSUME NEW p \in Procs, WriteKey(p) PROVE AloneInv'
  BY <1>6 DEF WriteKey, Goto, files, portal, local, ghosts, counters
<1>7. ASSUME NEW p \in Procs, Verify(p) PROVE AloneInv'
  BY <1>7 DEF Verify, Goto, End, files, portal, local, ghosts, counters
<1>8. ASSUME NEW p \in Procs, Refresh(p) PROVE AloneInv'
  BY <1>8 DEF Refresh, Goto, files, portal, local, ghosts, counters
<1>9. ASSUME NEW p \in Procs, CheckRefreshed(p) PROVE AloneInv'
  BY <1>9 DEF CheckRefreshed, Goto, End, files, portal, local, ghosts, counters
<1>10. ASSUME NEW p \in Procs, OpenSession(p) PROVE AloneInv'
  BY <1>10 DEF OpenSession, Goto, files, portal, local, ghosts, counters
<1>11. ASSUME NEW p \in Procs, WriteSession(p) PROVE AloneInv'
  BY <1>11 DEF WriteSession, Goto, End, files, portal, local, ghosts, counters
<1>12. ASSUME NEW p \in Procs, ReadDevice(p) PROVE AloneInv'
  BY <1>12 DEF ReadDevice, Goto, files, portal, local, ghosts, counters
<1>13. ASSUME NEW p \in Procs, WriteDevice(p) PROVE AloneInv'
  BY <1>13 DEF WriteDevice, Goto, files, portal, local, ghosts, counters
<1>14. ASSUME NEW p \in Procs, Exchange(p) PROVE AloneInv'
  BY <1>14 DEF Exchange, Goto, files, portal, local, ghosts, counters
<1>15. ASSUME NEW p \in Procs, Decode(p) PROVE AloneInv'
  BY <1>15 DEF Decode, Goto, End, files, portal, local, ghosts, counters
<1>16. ASSUME NEW p \in Procs, ReadTrusted(p) PROVE AloneInv'
  BY <1>16 DEF ReadTrusted, Goto, files, portal, local, ghosts, counters
<1>17. ASSUME NEW p \in Procs, Logout(p) PROVE AloneInv'
  BY <1>17 DEF Logout, Goto, End, files, portal, local, ghosts, counters
<1>18. ASSUME NEW p \in Procs, Kill(p) PROVE AloneInv'
  BY <1>18 DEF Kill, Goto, End, files, portal, local, ghosts, counters
<1>19. ASSUME NEW p \in Procs, NEW k \in Kinds, Start(p, k) PROVE AloneInv'
  BY <1>19 DEF Start, Goto, FirstStep, files, portal, local, ghosts, counters
<1>20. ASSUME Rotate PROVE AloneInv'
  BY <1>20 DEF Rotate, files, portal, local, ghosts, counters
<1>21. ASSUME Tick PROVE AloneInv'
  BY <1>21 DEF Tick, files, portal, local, ghosts, counters
<1>22. CASE UNCHANGED vars
  BY <1>22 DEF vars, files, portal, local, ghosts, counters
<1> HIDE DEF KindInv, AloneInv, Running
<1> QED
  BY <1>1, <1>2, <1>3, <1>4, <1>5, <1>6, <1>7, <1>8, <1>9, <1>10, <1>11, <1>12, <1>13, <1>14,
     <1>15, <1>16, <1>17, <1>18, <1>19, <1>20, <1>21, <1>22
  DEF Next, Step

LEMMA LoneStep ==
    ASSUME Typed, AloneInv, LoneInv, [Next]_vars
    PROVE  LoneInv'
<1> USE DEF Typed, KindInv, Values, AloneInv, LoneInv, AccountInv, LoginInv, Kinds, AccountSteps,
    LoginSteps, Signed, Known, HasHeld, HasFresh, Leases, KeyIds, Verifies
<1>1. ASSUME NEW p \in Procs, Load(p) PROVE LoneInv'
  BY <1>1 DEF Load, Goto, End, files, portal, local, ghosts, counters
<1>2. ASSUME NEW p \in Procs, CheckKey(p) PROVE LoneInv'
  BY <1>2 DEF CheckKey, Goto, files, portal, local, ghosts, counters
<1>3. ASSUME NEW p \in Procs, FetchKey(p) PROVE LoneInv'
  BY <1>3, AuthAssumption DEF FetchKey, Goto, files, portal, local, ghosts, counters
<1>4. ASSUME NEW p \in Procs, RequestFails(p) PROVE LoneInv'
  BY <1>4 DEF RequestFails, Goto, End, files, portal, local, ghosts, counters
<1>5. ASSUME NEW p \in Procs, OpenKey(p) PROVE LoneInv'
  BY <1>5 DEF OpenKey, Goto, files, portal, local, ghosts, counters
<1>6. ASSUME NEW p \in Procs, WriteKey(p) PROVE LoneInv'
  BY <1>6 DEF WriteKey, Goto, files, portal, local, ghosts, counters
<1>7. ASSUME NEW p \in Procs, Verify(p) PROVE LoneInv'
  BY <1>7 DEF Verify, Goto, End, files, portal, local, ghosts, counters
<1>8. ASSUME NEW p \in Procs, Refresh(p) PROVE LoneInv'
  BY <1>8 DEF Refresh, Goto, files, portal, local, ghosts, counters
<1>9. ASSUME NEW p \in Procs, CheckRefreshed(p) PROVE LoneInv'
  BY <1>9 DEF CheckRefreshed, Goto, End, files, portal, local, ghosts, counters
<1>10. ASSUME NEW p \in Procs, OpenSession(p) PROVE LoneInv'
  BY <1>10 DEF OpenSession, Goto, files, portal, local, ghosts, counters
<1>11. ASSUME NEW p \in Procs, WriteSession(p) PROVE LoneInv'
  BY <1>11, AuthAssumption DEF WriteSession, Goto, End, files, portal, local, ghosts, counters
<1>12. ASSUME NEW p \in Procs, ReadDevice(p) PROVE LoneInv'
  BY <1>12 DEF ReadDevice, Goto, files, portal, local, ghosts, counters
<1>13. ASSUME NEW p \in Procs, WriteDevice(p) PROVE LoneInv'
  BY <1>13 DEF WriteDevice, Goto, files, portal, local, ghosts, counters
<1>14. ASSUME NEW p \in Procs, Exchange(p) PROVE LoneInv'
  BY <1>14, AuthAssumption DEF Exchange, Goto, files, portal, local, ghosts, counters
<1>15. ASSUME NEW p \in Procs, Decode(p) PROVE LoneInv'
  BY <1>15 DEF Decode, Goto, End, files, portal, local, ghosts, counters
<1>16. ASSUME NEW p \in Procs, ReadTrusted(p) PROVE LoneInv'
  BY <1>16 DEF ReadTrusted, Goto, files, portal, local, ghosts, counters
<1>17. ASSUME NEW p \in Procs, Logout(p) PROVE LoneInv'
  BY <1>17 DEF Logout, Goto, End, files, portal, local, ghosts, counters
<1>18. ASSUME NEW p \in Procs, Kill(p) PROVE LoneInv'
  BY <1>18 DEF Kill, Goto, End, files, portal, local, ghosts, counters
<1>19. ASSUME NEW p \in Procs, NEW k \in Kinds, Start(p, k) PROVE LoneInv'
  BY <1>19 DEF Start, Goto, FirstStep, files, portal, local, ghosts, counters
<1>20. ASSUME Rotate PROVE LoneInv'
  BY <1>20 DEF Rotate, files, portal, local, ghosts, counters
<1>21. ASSUME Tick PROVE LoneInv'
  BY <1>21 DEF Tick, files, portal, local, ghosts, counters
<1>22. CASE UNCHANGED vars
  BY <1>22 DEF vars, files, portal, local, ghosts, counters
<1> HIDE DEF Typed, KindInv, Values, AloneInv, LoneInv, AccountInv, LoginInv, Kinds, AccountSteps,
    LoginSteps, Signed, Known, HasHeld, HasFresh, Leases, KeyIds, Verifies
<1> QED
  BY <1>1, <1>2, <1>3, <1>4, <1>5, <1>6, <1>7, <1>8, <1>9, <1>10, <1>11, <1>12, <1>13, <1>14,
     <1>15, <1>16, <1>17, <1>18, <1>19, <1>20, <1>21, <1>22
  DEF Next, Step

\* A start adds one process to those that have numbers to come, and a step
\* takes away the process that got its number.
LEMMA CountStep ==
    ASSUME KindInv, Count, [Next]_vars
    PROVE  Count'
<1>1. ASSUME NEW S, IsFiniteSet(S), NEW T, NEW p, T \subseteq S \union {p}
      PROVE  IsFiniteSet(T) /\ Cardinality(T) \in Nat /\ Cardinality(T) <= Cardinality(S) + 1
  <2>1. IsFiniteSet(S \union {p}) /\ Cardinality(S \union {p}) <= Cardinality(S) + 1
    <3>1. Cardinality(S) \in Nat
      BY <1>1, FS_CardinalityType
    <3>2. /\ IsFiniteSet(S \union {p})
          /\ Cardinality(S \union {p}) \in {Cardinality(S), Cardinality(S) + 1}
      BY <1>1, FS_AddElement
    <3> QED
      BY <3>1, <3>2
  <2> QED
    BY <1>1, <2>1, FS_Subset, FS_CardinalityType
<1>2. ASSUME NEW S, IsFiniteSet(S), NEW T, T \subseteq S
      PROVE  IsFiniteSet(T) /\ Cardinality(T) \in Nat /\ Cardinality(T) <= Cardinality(S)
  BY <1>2, FS_Subset, FS_CardinalityType
<1>3. ASSUME NEW S, IsFiniteSet(S), NEW p \in S, NEW T, T \subseteq S \ {p}
      PROVE  IsFiniteSet(T) /\ Cardinality(T) \in Nat /\ Cardinality(T) <= Cardinality(S) - 1
  <2>1. IsFiniteSet(S \ {p}) /\ Cardinality(S \ {p}) = Cardinality(S) - 1
    BY <1>3, FS_RemoveElement
  <2> QED
    BY <1>3, <2>1, FS_Subset, FS_CardinalityType
<1>4. /\ IsFiniteSet(Unread) /\ Cardinality(Unread) \in Nat
      /\ IsFiniteSet(Unanswered) /\ Cardinality(Unanswered) \in Nat
  BY FS_CardinalityType DEF Count
<1>5. ASSUME NEW p \in Procs, NEW k \in Kinds, Start(p, k) PROVE Count'
  <2>1. Unread' \subseteq Unread \union {p} /\ Unanswered' \subseteq Unanswered \union {p}
    BY <1>5 DEF Start, Goto, Unread, Unanswered, KindInv
  <2>2. /\ IsFiniteSet(Unread') /\ Cardinality(Unread') \in Nat
        /\ Cardinality(Unread') <= Cardinality(Unread) + 1
    BY <1>1, <1>4, <2>1
  <2>3. /\ IsFiniteSet(Unanswered') /\ Cardinality(Unanswered') \in Nat
        /\ Cardinality(Unanswered') <= Cardinality(Unanswered) + 1
    BY <1>1, <1>4, <2>1
  <2>4. commands' = commands + 1 /\ commands' \in 0..MaxCommands /\ ids' = ids /\ logins' = logins
    BY <1>5, AuthAssumption DEF Start, Count
  <2> QED
    BY <1>4, <2>2, <2>3, <2>4 DEF Count
<1>6. ASSUME NEW p \in Procs, ReadDevice(p) PROVE Count'
  <2>1. p \in Unread /\ Unread' \subseteq Unread \ {p} /\ Unanswered' \subseteq Unanswered
    BY <1>6 DEF ReadDevice, Goto, Unread, Unanswered, KindInv
  <2>2. /\ IsFiniteSet(Unread') /\ Cardinality(Unread') \in Nat
        /\ Cardinality(Unread') <= Cardinality(Unread) - 1
    BY <1>3, <1>4, <2>1
  <2>3. /\ IsFiniteSet(Unanswered') /\ Cardinality(Unanswered') \in Nat
        /\ Cardinality(Unanswered') <= Cardinality(Unanswered)
    BY <1>2, <1>4, <2>1
  <2>4. UNCHANGED <<commands, logins>> /\ ids' \in {ids, ids + 1}
    BY <1>6 DEF ReadDevice
  <2> QED
    BY <1>4, <2>2, <2>3, <2>4 DEF Count
<1>7. ASSUME NEW p \in Procs, Exchange(p) \/ Decode(p) PROVE Count'
  <2>1. p \in Unanswered /\ Unread' \subseteq Unread
    BY <1>7 DEF Exchange, Decode, Goto, End, Unread, Unanswered, KindInv
  <2>2. IsFiniteSet(Unread') /\ Cardinality(Unread') \in Nat /\ Cardinality(Unread') <= Cardinality(Unread)
    BY <1>2, <1>4, <2>1
  <2>3. UNCHANGED <<commands, ids>>
    BY <1>7 DEF Exchange, Decode
  <2>4. CASE logins' = logins /\ Unanswered' \subseteq Unanswered
    <3>1. IsFiniteSet(Unanswered') /\ Cardinality(Unanswered') \in Nat /\ Cardinality(Unanswered') <= Cardinality(Unanswered)
      BY <1>2, <1>4, <2>4
    <3> QED
      BY <1>4, <2>2, <2>3, <2>4, <3>1 DEF Count
  <2>5. CASE logins' = logins + 1 /\ Unanswered' \subseteq Unanswered \ {p}
    <3>1. IsFiniteSet(Unanswered') /\ Cardinality(Unanswered') \in Nat /\ Cardinality(Unanswered') <= Cardinality(Unanswered) - 1
      BY <1>3, <1>4, <2>1, <2>5
    <3> QED
      BY <1>4, <2>2, <2>3, <2>5, <3>1 DEF Count
  <2> QED
    BY <1>7, <2>4, <2>5 DEF Exchange, Decode, Goto, End, Unanswered, KindInv
<1>8. ASSUME UNCHANGED counters, Unread' \subseteq Unread, Unanswered' \subseteq Unanswered PROVE Count'
  <2>1. IsFiniteSet(Unread') /\ Cardinality(Unread') \in Nat /\ Cardinality(Unread') <= Cardinality(Unread)
    BY <1>2, <1>4, <1>8
  <2>2. IsFiniteSet(Unanswered') /\ Cardinality(Unanswered') \in Nat /\ Cardinality(Unanswered') <= Cardinality(Unanswered)
    BY <1>2, <1>4, <1>8
  <2> QED
    BY <1>4, <1>8, <2>1, <2>2 DEF Count, counters
<1>9. ASSUME NEW p \in Procs,
             \/ Load(p) \/ CheckKey(p) \/ FetchKey(p) \/ RequestFails(p) \/ OpenKey(p)
             \/ WriteKey(p) \/ Verify(p) \/ Refresh(p) \/ CheckRefreshed(p) \/ OpenSession(p)
             \/ WriteSession(p) \/ WriteDevice(p) \/ ReadTrusted(p) \/ Logout(p) \/ Kill(p)
      PROVE  Count'
  <2>1. UNCHANGED counters
    BY <1>9 DEF Load, CheckKey, FetchKey, RequestFails, OpenKey, WriteKey, Verify, Refresh,
                CheckRefreshed, OpenSession, WriteSession, WriteDevice, ReadTrusted, Logout, Kill
  <2>2. Unread' \subseteq Unread /\ Unanswered' \subseteq Unanswered
    BY <1>9 DEF Load, CheckKey, FetchKey, RequestFails, OpenKey, WriteKey, Verify, Refresh,
                CheckRefreshed, OpenSession, WriteSession, WriteDevice, ReadTrusted, Logout, Kill,
                Goto, End, Unread, Unanswered, KindInv
  <2> QED
    BY <1>8, <2>1, <2>2
<1>10. CASE Rotate \/ Tick \/ UNCHANGED vars
  BY <1>8, <1>10 DEF Rotate, Tick, vars, Unread, Unanswered
<1> QED
  BY <1>5, <1>6, <1>7, <1>9, <1>10 DEF Next, Step

LEMMA IInvIsInvariant == Spec => []IInv
<1>1. Init => IInv
  <2> SUFFICES ASSUME Init PROVE IInv
    OBVIOUS
  <2>1. KindInv /\ AloneInv /\ LoneInv
    BY DEF Init, KindInv, Kinds, AloneInv, LoneInv
  <2>2. Values
    BY AuthAssumption DEF Init, KindInv, Values, KeyIds, Known, HasHeld, HasFresh, AccountSteps,
       LoginSteps
  <2>3. Count
    <3>1. Unread = {} /\ Unanswered = {}
      BY DEF Init, Unread, Unanswered
    <3> QED
      BY <3>1, FS_EmptySet, AuthAssumption DEF Init, Count
  <2> QED
    BY <2>1, <2>2, <2>3 DEF IInv, Typed
<1>2. IInv /\ [Next]_vars => IInv'
  BY KindStep, CountStep, ValuesStep, AloneStep, LoneStep DEF IInv, Typed
<1> QED
  BY <1>1, <1>2, PTL DEF Spec

-----------------------------------------------------------------------------
\* The types of the files, the portal and the processes.
THEOREM TypeCorrect == Spec => []TypeOK
<1>1. IInv => TypeOK
  BY DEF IInv, Typed, KindInv, Values, AloneInv, TypeOK, Signed, Known, HasHeld, AccountSteps
<1> QED
  BY <1>1, IInvIsInvariant, PTL

\* A refused command of the guard leaves the session that it found.
THEOREM RefusalCostsNothing == Spec => []RefusalKeepsSession
<1>1. IInv => (Ended /\ kind[alone] = "account" /\ result \in {"signature", "error", "missing"}
                 => sess = before[1])
  BY DEF IInv, LoneInv, AccountInv, Ended
<1> QED
  BY <1>1, IInvIsInvariant, TypeCorrect, PTL DEF RefusalKeepsSession

\* A command that nothing overlaps is refused for a signature only where the
\* portal has a newer key than that of the lease.
THEOREM SignatureIsOfAnOlderKey == Spec => []SignatureRefusedOnlyAfterRotation
<1>1. IInv => SignatureRefusedOnlyAfterRotation
  BY DEF IInv, Typed, Values, KeyIds, LoneInv, AccountInv, SignatureRefusedOnlyAfterRotation, Ended
<1> QED
  BY <1>1, IInvIsInvariant, PTL

\* What logins, failed logins and logouts leave, of which none overlapped
\* another command.
THEOREM LoginsCompose == Spec => []CommandsCompose
<1>1. IInv => CommandsCompose
  <2> SUFFICES ASSUME IInv, Ended PROVE CommandsCompose
    BY DEF CommandsCompose
  <2>1. portalKey \in Nat /\ (sess # None => sess.key \in Nat /\ sess.key <= portalKey)
    BY DEF IInv, Typed, Values, KeyIds, Signed, Leases
  <2>2. localKey # None => localKey \in Nat /\ localKey <= portalKey
    BY DEF IInv, Typed, Values, Known, KeyIds
  <2> QED
    BY <2>1, <2>2 DEF CommandsCompose, Ended, IInv, LoneInv, LoginInv, Verifies
<1> QED
  BY <1>1, IInvIsInvariant, PTL
==============================================================================
