----------------------------- MODULE EchoServer -----------------------------
(***************************************************************************)
(* src/examples/echo_server.rs: the Listener, and the Echoer actors it     *)
(* starts for the connections it accepts.  The first of them is the one of *)
(* module Echoer, of the others only how they end is modelled.  Handlers   *)
(* do not interleave, and all stops when the listener is down.             *)
(*                                                                         *)
(* The listening socket is edge-triggered as in UdpSocket.  EINTR repeats  *)
(* accept and changes nothing.  Stakker is external: it runs the calls and *)
(* notices of the listener one at a time, and a timer's call at some time  *)
(* after it expires.  Whether timer_max! still stops a call of a timer     *)
(* that has expired is left open: it may be queued already.                *)
(***************************************************************************)
EXTENDS Echoer

CONSTANTS
  MaxConn,  \* bound: connections made
  Timeout   \* ticks without a connection after which the server shuts down

ASSUME ServerAssumption == MaxConn \in Nat /\ Timeout \in Nat \ {0}

VARIABLES
  lpc,       \* the listener: "idle", in "connect", or "down"
  cause,     \* why it is down
  backlog,   \* connections made and not accepted
  larm,      \* an accept would have blocked
  lready,    \* an event is to be reported
  children,  \* the actors started: "live", or how they ended
  notices,   \* ends of children that the listener is to be told of
  age,       \* ticks since the inactivity timer was set
  late,      \* a call of an expired timer that was put off too late is queued
  quiet      \* history: ticks since the last connection was accepted

acceptVars == <<backlog, larm, lready>>
timeVars == <<age, late, quiet>>
listenVars == <<lpc, cause, acceptVars, children, notices, timeVars>>
serverVars == <<allVars, listenVars>>

(* Mutant: setup does not set the timer, it never expires. *)
SetupTimerNone == Timeout + 1

SetupTimer == 0

(* Listener::init and setup, which may fail *)
ServerInit ==
  /\ EchoInit
  /\ \/ lpc = "idle" /\ cause = "none"
     \/ lpc = "down" /\ cause = "setup"
  /\ backlog = 0 /\ larm = TRUE /\ lready = FALSE
  /\ children = <<>> /\ notices = <<>>
  /\ age = SetupTimer /\ late = FALSE /\ quiet = 0

Up == lpc # "down"
Turn == lpc = "idle" /\ epc \in {"idle", "ended"}
Alive(i) == i \in DOMAIN children /\ children[i] = "live"

-----------------------------------------------------------------------------
(* The clients and the clock *)

Connection ==
  /\ Up /\ backlog + Len(children) < MaxConn
  /\ backlog' = backlog + 1
  /\ lready' = (lready \/ larm) /\ larm' = FALSE
  /\ UNCHANGED <<allVars, lpc, cause, children, notices, timeVars>>

Older(n) == IF n < Timeout THEN n + 1 ELSE n

Tick ==
  /\ Up /\ (age < Timeout \/ quiet < Timeout)
  /\ age' = Older(age) /\ quiet' = Older(quiet)
  /\ UNCHANGED <<allVars, lpc, cause, acceptVars, children, notices, late>>

-----------------------------------------------------------------------------
(* The listener *)

Fail(why) == lpc' = "down" /\ cause' = why

connect ==
  /\ Turn /\ lready
  /\ lpc' = "connect"
  /\ lready' = FALSE
  /\ UNCHANGED <<allVars, cause, backlog, larm, children, notices, timeVars>>

(* Mutant: the timer is not put off. *)
ActivityNone == age

activity == 0

(* Mutant: only one connection is accepted for an event. *)
AcceptOne == "idle"

AcceptOn == "connect"

(* Ok(stream); the Echoer's setup may fail *)
acceptOk ==
  /\ lpc = "connect" /\ backlog > 0
  /\ backlog' = backlog - 1
  /\ \/ children' = Append(children, "live") /\ UNCHANGED notices
     \/ children' = Append(children, "failed") /\ notices' = Append(notices, "failed")
  /\ age' = activity /\ quiet' = 0
  /\ late' \in {late, late \/ age = Timeout}
  /\ lpc' = AcceptOn
  /\ UNCHANGED <<allVars, cause, larm, lready>>

acceptWouldBlock ==
  /\ lpc = "connect" /\ backlog = 0
  /\ lpc' = "idle"
  /\ larm' = TRUE
  /\ UNCHANGED <<allVars, cause, backlog, lready, children, notices, timeVars>>

acceptError ==
  /\ lpc = "connect"
  /\ Fail("accept")
  /\ UNCHANGED <<allVars, acceptVars, children, notices, timeVars>>

inactivity ==
  /\ Turn /\ (age = Timeout \/ late)
  /\ Fail("timeout")
  /\ UNCHANGED <<allVars, acceptVars, children, notices, timeVars>>

(* Mutant: no failure shuts the server down. *)
IsNoFailure(why) == FALSE

IsAbort(why) == why = "aborted"

terminated ==
  /\ Turn /\ notices # <<>>
  /\ IF IsAbort(Head(notices)) THEN Fail("aborted") ELSE UNCHANGED <<lpc, cause>>
  /\ notices' = Tail(notices)
  /\ UNCHANGED <<allVars, acceptVars, children, timeVars>>

-----------------------------------------------------------------------------
(* The children *)

Ended(i, why) ==
  /\ children' = [children EXCEPT ![i] = why]
  /\ notices' = Append(notices, why)

(* A child but the first stops, fails, or fails with AbortError. *)
otherEnds ==
  /\ Turn
  /\ \E i \in DOMAIN children \ {1}, why \in {"stopped", "failed", "aborted"} :
       Alive(i) /\ Ended(i, why)
  /\ UNCHANGED <<allVars, lpc, cause, acceptVars, timeVars>>

echoerEnds ==
  /\ lpc = "idle" /\ Alive(1)
  /\ end
  /\ Ended(1, die)
  /\ UNCHANGED <<lpc, cause, acceptVars, timeVars>>

echoerCalled == lpc = "idle" /\ Alive(1) /\ (echoReady \/ timer) /\ UNCHANGED listenVars
echoerGoesOn == Up /\ Alive(1) /\ Handler /\ UNCHANGED listenVars
echoerWorld == Up /\ Alive(1) /\ World /\ UNCHANGED listenVars

-----------------------------------------------------------------------------
Accept == acceptOk \/ acceptWouldBlock \/ acceptError

ServerNext ==
  \/ Connection \/ Tick
  \/ connect \/ Accept \/ inactivity \/ terminated \/ otherEnds
  \/ echoerCalled \/ echoerGoesOn \/ echoerWorld \/ echoerEnds

ServerSpec == ServerInit /\ [][ServerNext]_serverVars

(***************************************************************************)
(* Handlers go on, events, notices and timers get their turn, and the      *)
(* operating system sends what it buffered, which takes a client that      *)
(* reads.  Otherwise no client and no child has to do anything, and time   *)
(* need not pass.                                                          *)
(***************************************************************************)
FairServerSpec ==
  /\ ServerSpec
  /\ WF_serverVars(Accept) /\ WF_serverVars(echoerGoesOn) /\ WF_serverVars(echoerEnds)
  /\ SF_serverVars(connect) /\ SF_serverVars(terminated) /\ SF_serverVars(inactivity)
  /\ SF_serverVars(echoerCalled /\ echoReady) /\ SF_serverVars(echoerCalled /\ timer)
  /\ WF_serverVars(echoerWorld /\ MoveOut)

-----------------------------------------------------------------------------
(* Properties. *)

(* Nothing waits without an event to come: neither a connection in the backlog
   (connect accepts until WouldBlock) nor data or EOF of a live Echoer. *)
NothingStranded ==
  /\ lpc = "idle" /\ backlog > 0 => lready
  /\ NoStrandedEcho

(* Apart from a failure of its own listening socket (on setup or accept) the
   server goes down for the two reasons the docs give only: there was "no
   incoming connection for 60 seconds", or a child ended with an AbortError;
   children that stop or fail leave it up ("All other TCP connections
   continue").  And no AbortError that a child ends with is passed over: "the
   listener detects this particular kind of failure, and shuts down the whole
   server".  A connection that comes after the 60 seconds does not save it when
   the call of the timer is queued already. *)
CauseHonest ==
  LET aborted == \E i \in DOMAIN children : children[i] = "aborted" IN
  /\ ~Up => \/ cause \in {"setup", "accept"}
            \/ cause = "timeout" /\ (quiet = Timeout \/ late)
            \/ cause = "aborted" /\ aborted
  /\ aborted => ~Up \/ "aborted" \in ToSet(notices)

(* "The server will shut down if there is no incoming connection for 60
   seconds", whatever its children do, and also if there never was one; and it
   shuts down after any of its children has ended with an AbortError. *)
ServerEnds ==
  /\ quiet = Timeout ~> ~Up \/ quiet < Timeout
  /\ (\E i \in DOMAIN children : children[i] = "aborted") ~> ~Up

(* The actor ends after the EOF of the peer, after a '!' ("the actor terminates
   the TCP connection and shuts down") and after a '%' ("this causes the actor
   to fail"). *)
EchoEnds ==
  (k.fin \/ {mark.bang, mark.pct} \cap ToSet(handed) # {}) ~> epc = "ended" \/ ~Up
=============================================================================
