---------------------------- MODULE AuthSession ----------------------------
(***************************************************************************)
(* The commands of architec/auth over the files they share: session.json,  *)
(* portal-public-key.pem and device.json.  whoami, devices and status pass *)
(* the guard (auth/guard.py), login gets a session by browser, by an auth  *)
(* code or by an offline activation code (auth/commands.py), logout        *)
(* removes it.                                                             *)
(*                                                                         *)
(* A lease is the key it is signed with, its expiry and the login it       *)
(* belongs to.  The portal is external: it signs with its current key, may *)
(* change the key, and may reject a request or be out of reach.  Time is   *)
(* in steps of the 300 seconds a lease is refreshed ahead of its expiry.   *)
(***************************************************************************)
EXTENDS Integers

CONSTANTS
    Procs,
    None,
    Life,          \* how long a lease lives
    MaxRotations,  \* bound: changes of the portal's key
    MaxClock,      \* bound: the time
    MaxCommands    \* bound: commands started in all

ASSUME AuthAssumption ==
    /\ Life \in Nat /\ MaxRotations \in Nat /\ MaxClock \in Nat
    /\ MaxCommands \in Nat
    /\ None \notin Procs \union Nat
    /\ None \notin [key : Nat, exp : Nat, login : Nat, install : Nat]

VARIABLES
    sess,        \* session.json, None when missing or truncated
    localKey,    \* the trusted key; None while the file is truncated
    device,      \* the install id of device.json
    portalKey, clock,
    pc, kind,    \* per process: the next step and the command
    held,        \* the session the process works with
    fresh,       \* the session it is going to save
    got,         \* the key it is going to save
    alone,       \* the process whose command no other command overlapped, until
                 \* the next one starts
    before,      \* the session and the key when its command started
    result,      \* how it ended
    logins, ids, commands

files == <<sess, localKey, device>>
portal == <<portalKey, clock>>
local == <<held, fresh, got>>
counters == <<logins, ids, commands>>
ghosts == <<alone, before>>
vars == <<files, portal, pc, kind, local, result, ghosts, counters>>

Kinds == {"account", "login", "activate", "logout"}
KeyIds == 0..MaxRotations
Leases == [key : KeyIds, exp : 0..(MaxClock + Life), login : 0..MaxCommands,
           install : 1..MaxCommands]
Running == {p \in Procs : pc[p] # "idle"}

\* verify_signature: against the trusted key as it is read now.
Verifies(lease) == localKey # None /\ lease.key = localKey

IsExpired(lease) == lease.exp <= clock
NeedsRefresh(lease) == lease.exp <= clock + 1

Init ==
    /\ sess = None /\ localKey = 0 /\ device = None
    /\ portalKey = 0 /\ clock = 0
    /\ pc = [p \in Procs |-> "idle"]
    /\ kind = [p \in Procs |-> "logout"]
    /\ held = [p \in Procs |-> None]
    /\ fresh = [p \in Procs |-> None]
    /\ got = [p \in Procs |-> None]
    /\ result = "none"
    /\ alone = None
    /\ before = <<None, 0>>
    /\ logins = 0 /\ ids = 0 /\ commands = 0

Goto(p, step) == pc' = [pc EXCEPT ![p] = step]

\* The command of p ends.
End(p, how) ==
    /\ Goto(p, "idle")
    /\ result' = IF alone = p THEN how ELSE result
-----------------------------------------------------------------------------
FirstStep == [account |-> "load", login |-> "device", activate |-> "device",
              logout |-> "clear"]

\* handle_auth_command.
Start(p, k) ==
    /\ pc[p] = "idle"
    /\ commands < MaxCommands
    /\ commands' = commands + 1
    /\ kind' = [kind EXCEPT ![p] = k]
    /\ Goto(p, FirstStep[k])
    /\ alone' = IF Running = {} THEN p ELSE None
    /\ before' = IF Running = {} THEN <<sess, localKey>> ELSE <<None, 0>>
    /\ result' = "none"
    /\ held' = [q \in Procs |-> IF pc[q] = "idle" THEN None ELSE held[q]]
    /\ fresh' = [q \in Procs |-> IF pc[q] = "idle" THEN None ELSE fresh[q]]
    /\ got' = [q \in Procs |-> IF pc[q] = "idle" THEN None ELSE got[q]]
    /\ UNCHANGED <<files, portal, logins, ids>>

\* require_authorized_session: no session, no shape, no signature: refused.
Load(p) ==
    /\ pc[p] = "load"
    /\ held' = [held EXCEPT ![p] = sess]
    /\ IF sess = None
       THEN End(p, "missing")
       ELSE Goto(p, "check") /\ UNCHANGED result
    /\ UNCHANGED <<files, portal, kind, fresh, got, ghosts, counters>>

\* A lease the trusted key does not verify: the portal's key is fetched.
CheckKeyNoFetch(p) ==
    /\ pc[p] = "check"
    /\ Goto(p, "verify")
    /\ UNCHANGED <<files, portal, kind, local, result, ghosts, counters>>

CheckKey(p) ==
    /\ pc[p] = "check"
    /\ Goto(p, IF Verifies(held[p]) THEN "verify" ELSE "fetch")
    /\ UNCHANGED <<files, portal, kind, local, result, ghosts, counters>>

FetchKey(p) ==
    /\ pc[p] = "fetch"
    /\ got' = [got EXCEPT ![p] = portalKey]
    /\ Goto(p, "openkey")
    /\ UNCHANGED <<files, portal, kind, held, fresh, result, ghosts, counters>>

\* A request that is rejected, times out or does not reach the portal; for the
\* exchange, also a browser that brings no code (denied, timed out, another state).
RequestFails(p) ==
    /\ pc[p] \in {"fetch", "refresh", "exchange"}
    /\ End(p, "error")
    /\ UNCHANGED <<files, portal, kind, local, ghosts, counters>>

\* save_public_key: write_text truncates, then writes.
OpenKey(p) ==
    /\ pc[p] = "openkey"
    /\ localKey' = None
    /\ Goto(p, "writekey")
    /\ UNCHANGED <<sess, device, portal, kind, local, result, ghosts, counters>>

WriteKey(p) ==
    /\ pc[p] = "writekey"
    /\ localKey' = got[p]
    /\ Goto(p, IF kind[p] = "account" THEN "verify" ELSE "opensess")
    /\ UNCHANGED <<sess, device, portal, kind, local, result, ghosts, counters>>

\* The lease is verified again; a lease that lives long enough is not refreshed.
Verify(p) ==
    /\ pc[p] = "verify"
    /\ CASE ~Verifies(held[p]) -> End(p, "signature")
         [] Verifies(held[p]) /\ NeedsRefresh(held[p]) ->
              Goto(p, "refresh") /\ UNCHANGED result
         [] OTHER -> End(p, "ok")
    /\ UNCHANGED <<files, portal, kind, local, ghosts, counters>>

Refresh(p) ==
    /\ pc[p] = "refresh"
    /\ fresh' = [fresh EXCEPT ![p] =
                   [held[p] EXCEPT !.key = portalKey, !.exp = clock + Life]]
    /\ Goto(p, "checkfresh")
    /\ UNCHANGED <<files, portal, kind, held, got, result, ghosts, counters>>

CheckRefreshedSaved(p) ==
    /\ pc[p] = "checkfresh"
    /\ sess' = fresh[p]
    /\ IF Verifies(fresh[p])
       THEN Goto(p, "opensess") /\ UNCHANGED result
       ELSE End(p, "signature")
    /\ UNCHANGED <<localKey, device, portal, kind, local, ghosts, counters>>

\* The refreshed lease is verified with the trusted key; nothing is fetched.
CheckRefreshed(p) ==
    /\ pc[p] = "checkfresh"
    /\ IF Verifies(fresh[p])
       THEN Goto(p, "opensess") /\ UNCHANGED result
       ELSE End(p, "signature")
    /\ UNCHANGED <<files, portal, kind, local, ghosts, counters>>

\* save_session: write_json truncates, then writes.
OpenSession(p) ==
    /\ pc[p] = "opensess"
    /\ sess' = None
    /\ Goto(p, "writesess")
    /\ UNCHANGED <<localKey, device, portal, kind, local, result, ghosts, counters>>

WriteSession(p) ==
    /\ pc[p] = "writesess"
    /\ sess' = fresh[p]
    /\ End(p, IF kind[p] = "account" /\ IsExpired(fresh[p]) THEN "expired" ELSE "ok")
    /\ UNCHANGED <<localKey, device, portal, kind, local, ghosts, counters>>
-----------------------------------------------------------------------------
\* ensure_device reads the install id, makes one if there is none, and writes
\* it back; --install-id gives a new one.
ReadDevice(p) ==
    /\ pc[p] = "device"
    /\ \E id \in ({device} \ {None}) \union {ids + 1} :
          /\ fresh' = [fresh EXCEPT ![p] =
                         [key |-> 0, exp |-> 0, login |-> 0, install |-> id]]
          /\ ids' = IF id = device THEN ids ELSE ids + 1
    /\ Goto(p, "writedevice")
    /\ UNCHANGED <<files, portal, kind, held, got, result, ghosts, logins, commands>>

WriteDevice(p) ==
    /\ pc[p] = "writedevice"
    /\ device' = fresh[p].install
    /\ Goto(p, IF kind[p] = "activate" THEN "decode" ELSE "exchange")
    /\ UNCHANGED <<sess, localKey, portal, kind, local, result, ghosts, counters>>

\* exchange_code: the answer may come without public_key_pem.
Exchange(p) ==
    /\ pc[p] = "exchange"
    /\ logins' = logins + 1
    /\ fresh' = [fresh EXCEPT ![p] =
                   [key |-> portalKey, exp |-> clock + Life, login |-> logins + 1,
                    install |-> fresh[p].install]]
    /\ \E withKey \in BOOLEAN :
          IF withKey
          THEN got' = [got EXCEPT ![p] = portalKey] /\ Goto(p, "openkey")
          ELSE UNCHANGED got /\ Goto(p, "fetch")
    /\ UNCHANGED <<files, portal, kind, held, result, ghosts, ids, commands>>

\* An offline activation code: signed by the portal at some time for some
\* install id, with a session of its own; checked with the trusted key only.
\* A code that is not one is exchanged.
Decode(p) ==
    /\ pc[p] = "decode"
    /\ \/ Goto(p, "exchange") /\ UNCHANGED <<result, fresh, logins>>
       \/ End(p, "error") /\ UNCHANGED <<fresh, logins>>
       \/ \E k \in 0..portalKey, exp \in {0, clock + Life} :
             /\ Verifies([key |-> k])
             /\ logins' = logins + 1
             /\ fresh' = [fresh EXCEPT ![p] =
                  [key |-> k, exp |-> exp, login |-> logins + 1,
                   install |-> fresh[p].install]]
             /\ Goto(p, "trusted")
             /\ UNCHANGED result
    /\ UNCHANGED <<files, portal, kind, held, got, ghosts, ids,
                   commands>>

\* trusted_public_key_pem is read once more and saved over itself.
ReadTrusted(p) ==
    /\ pc[p] = "trusted"
    /\ got' = [got EXCEPT ![p] = localKey]
    /\ Goto(p, "openkey")
    /\ UNCHANGED <<files, portal, kind, held, fresh, result, ghosts, counters>>

\* clear_session.
LogoutKeeps(p) ==
    /\ pc[p] = "clear"
    /\ End(p, "ok")
    /\ UNCHANGED <<files, portal, kind, local, ghosts, counters>>

Logout(p) ==
    /\ pc[p] = "clear"
    /\ sess' = None
    /\ End(p, "ok")
    /\ UNCHANGED <<localKey, device, portal, kind, local, ghosts, counters>>

\* A signal between two steps: what is on disk stays.
Kill(p) ==
    /\ pc[p] \in {"writekey", "opensess", "writesess"}
    /\ End(p, "killed")
    /\ UNCHANGED <<files, portal, kind, local, ghosts, counters>>

Rotate ==
    /\ portalKey < MaxRotations
    /\ portalKey' = portalKey + 1
    /\ UNCHANGED <<files, clock, pc, kind, local, result, ghosts, counters>>

Tick ==
    /\ clock < MaxClock
    /\ clock' = clock + 1
    /\ UNCHANGED <<files, portalKey, pc, kind, local, result, ghosts, counters>>

Step(p) ==
    \/ Load(p) \/ CheckKey(p) \/ FetchKey(p) \/ RequestFails(p) \/ OpenKey(p)
    \/ WriteKey(p) \/ Verify(p) \/ Refresh(p) \/ CheckRefreshed(p)
    \/ OpenSession(p) \/ WriteSession(p)
    \/ ReadDevice(p) \/ WriteDevice(p) \/ Exchange(p) \/ Decode(p)
    \/ ReadTrusted(p) \/ Logout(p)

Next ==
    \/ \E p \in Procs : Step(p) \/ Kill(p)
    \/ \E p \in Procs, k \in Kinds : Start(p, k)
    \/ Rotate
    \/ Tick

Spec == Init /\ [][Next]_vars
-----------------------------------------------------------------------------
\* The values of the files, the portal and the processes.
TypeOK ==
    /\ sess \in Leases \union {None}
    /\ localKey \in KeyIds \union {None}
    /\ device \in 1..MaxCommands \union {None}
    /\ portalKey \in KeyIds /\ clock \in 0..MaxClock
    /\ kind \in [Procs -> Kinds]
    /\ got \in [Procs -> KeyIds \union {None}]
    /\ alone \in Procs \union {None}
    /\ \A p \in Procs : pc[p] \in {"check", "verify", "fetch", "refresh"} /\ kind[p] = "account"
                          => held[p] \in Leases

\* A command ended that no other overlapped, and none started since.
Ended == alone # None /\ pc[alone] = "idle"

\* A login nothing interfered with leaves its own session, bound to the install
\* id of the device file, and verifiable at once unless the portal changed its
\* key meanwhile; one that failed leaves session and key as they were; after a
\* logout there is no session (auth/commands.py, _exchange_and_save).
CommandsCompose ==
    Ended => CASE kind[alone] \in {"login", "activate"} /\ result = "ok" ->
                    /\ sess # None /\ sess.login = logins /\ sess.install = device
                    /\ Verifies(sess) \/ sess.key # portalKey
               [] kind[alone] \in {"login", "activate"} /\ result = "error" ->
                    <<sess, localKey>> = before
               [] kind[alone] = "logout" -> sess = None
               [] OTHER -> TRUE

\* When the portal answers, a command of its own is refused for a signature only
\* if the portal changed its key after the session's lease was signed; whatever
\* overlapping or killed commands left in the key file is repaired
\* (guard.py, require_authorized_session).
SignatureRefusedOnlyAfterRotation ==
    Ended /\ kind[alone] = "account" /\ result = "signature"
        => held[alone].key # portalKey

\* A refusal costs nothing: a command that is refused or whose requests fail
\* leaves the session it found (guard.py).  The rest of the state has its shape.
RefusalKeepsSession ==
    /\ TypeOK
    /\ Ended /\ kind[alone] = "account" /\ result \in {"signature", "error", "missing"}
          => sess = before[1]
=============================================================================
