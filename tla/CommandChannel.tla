---------------------------- MODULE CommandChannel ----------------------------
(***************************************************************************)
(* The connections between the controllers of the service and the daemon   *)
(* (sendCmd, incomingConnection, slotReady, getCommand and slotClosed in   *)
(* qtservice_unix.cpp).                                                    *)
(*                                                                         *)
(* A command travels as a stream of bytes, here as two pieces of which the *)
(* second ends with the line break.  The daemon collects what has arrived  *)
(* in cache, under the address of its socket object.  That entry outlives  *)
(* the socket, and the next socket may get the same address.               *)
(***************************************************************************)
EXTENDS Integers, Sequences, SequencesExt

CONSTANTS Clients,  \* processes that call sendCmd
          Addrs,    \* addresses that the daemon's sockets can have
          Sent,     \* bound: the commands they send, some of Commands
          MaxCalls  \* bound: calls of sendCmd

Commands == {"terminate", "pause", "resume", "alive", "num"}
ASSUME SentAssumption == Sent \subseteq Commands
ASSUME MaxCallsAssumption == MaxCalls \in Nat

VARIABLES
  client,  \* the clients and the call each of them is in
  sock,    \* the daemon's sockets, by their address
  cache,   \* QMap<const QTcpSocket *, QString> cache
  calls,   \* calls so far
  \* History, read by properties only.
  torn,    \* a client was killed in the middle of its command
  ran      \* the commands executed for the call that a client is in

channelVars == <<client, sock, cache, calls, torn, ran>>

Piece == [cmd : Commands, last : BOOLEAN]

\* A client has written so many pieces to the socket at addr, or is not connected.
Idle == [cmd |-> "alive", addr |-> {}, pieces |-> 0, reply |-> "none"]
Client == [cmd : Commands, addr : {{}} \cup {{a} : a \in Addrs}, pieces : 0..2,
           reply : {"none", "true", "false"}]

\* A socket of the daemon: whose it is, what has arrived, and whether the client
\* has closed its end.
Free == [of |-> {}, buf |-> <<>>, eof |-> FALSE]

ChannelInit ==
  /\ client = [c \in Clients |-> Idle]
  /\ sock = [a \in Addrs |-> Free]
  /\ cache = [a \in Addrs |-> <<>>]
  /\ calls = 0 /\ torn = FALSE
  /\ ran = [c \in Clients |-> <<>>]

InCall(c) == client[c].addr # {}

-----------------------------------------------------------------------------
(***************************************************************************)
(* The clients: sendCmd.                                                   *)
(***************************************************************************)

\* connectTo(), and incomingConnection() of the daemon; the new socket has any
\* address that no other has, and what the cache holds for it.
Connect(c, cmd, a) ==
  /\ ~InCall(c) /\ sock[a] = Free /\ calls < MaxCalls
  /\ client' = [client EXCEPT ![c] = [Idle EXCEPT !.cmd = cmd, !.addr = {a}]]
  /\ sock' = [sock EXCEPT ![a].of = {c}]
  /\ ran' = [ran EXCEPT ![c] = <<>>]
  /\ calls' = calls + 1
  /\ UNCHANGED <<cache, torn>>

\* The next piece of the command is written.
Write(c) ==
  LET n == client[c].pieces + 1
  IN  /\ InCall(c) /\ n <= 2
      /\ client' = [client EXCEPT ![c].pieces = n]
      /\ sock' = [a \in Addrs |->
                    IF a \in client[c].addr
                    THEN [sock[a] EXCEPT !.buf =
                            Append(@, [cmd |-> client[c].cmd, last |-> n = 2])]
                    ELSE sock[a]]
      /\ UNCHANGED <<cache, calls, torn, ran>>

HangUp(c) ==
  /\ client' = [client EXCEPT ![c] = Idle]
  /\ sock' = [a \in Addrs |-> IF a \in client[c].addr
                              THEN [sock[a] EXCEPT !.eof = TRUE] ELSE sock[a]]

\* readAll() and close(): sendCmd returns whether the answer is "true".
GetReply(c) ==
  /\ client[c].reply # "none"
  /\ HangUp(c)
  /\ UNCHANGED <<cache, calls, torn, ran>>

\* A client is killed; one piece without the other remains.
Die(c) ==
  /\ InCall(c) /\ client[c].reply = "none"
  /\ HangUp(c)
  /\ torn' = (torn \/ client[c].pieces = 1)
  /\ UNCHANGED <<cache, calls, ran>>

-----------------------------------------------------------------------------
(***************************************************************************)
(* The daemon's side.                                                      *)
(***************************************************************************)

\* The command that the pieces up to a line break spell: with something else in
\* front it is none that slotReady knows, but anything can follow "num:".
Spelled(q) ==
  IF q[1].cmd = "num" \/ (Len(q) = 2 /\ q[1].cmd = q[2].cmd /\ ~q[1].last)
  THEN q[1].cmd ELSE "unknown"

\* What arrives replaces what the cache holds.
Cached_Replaces(a) == sock[a].buf

\* cache[s] += readAll().
Cached(a) == cache[a] \o sock[a].buf

\* getCommand(): one command at most is complete, because sendCmd sends one.
Breaks(q) == {i \in DOMAIN q : q[i].last}
HasCommand(q) == Breaks(q) # {}
Command(q) == Spelled(SubSeq(q, 1, CHOOSE i \in Breaks(q) : \A j \in Breaks(q) : i <= j))

\* The command is left in the cache.
AfterCommand_Keeps(q) == q

AfterCommand(q) ==
  IF HasCommand(q)
  THEN SubSeq(q, 1 + (CHOOSE i \in Breaks(q) : \A j \in Breaks(q) : i <= j), Len(q))
  ELSE q

\* slotReady(): the command is executed and answered; obeyed says how.  The answer
\* is lost when the client is gone.
SlotReady(a, obeyed) ==
  LET q  == Cached(a)
      to == {c \in sock[a].of : client[c].addr = {a}}
  IN  /\ sock[a].buf # <<>>
      /\ cache' = [cache EXCEPT ![a] = AfterCommand(q)]
      /\ sock' = [sock EXCEPT ![a].buf = <<>>]
      /\ client' = [c \in Clients |->
                      IF c \in to /\ HasCommand(q)
                      THEN [client[c] EXCEPT !.reply = IF obeyed THEN "true" ELSE "false"]
                      ELSE client[c]]
      /\ ran' = [c \in Clients |-> IF c \in to /\ HasCommand(q)
                                   THEN Append(ran[c], Command(q)) ELSE ran[c]]
      /\ UNCHANGED <<calls, torn>>

\* slotClosed(), after the last readyRead(): the socket is deleted, the cache keeps
\* its entry.
SlotClosed(a) ==
  /\ sock[a].eof /\ sock[a].buf = <<>>
  /\ sock' = [sock EXCEPT ![a] = Free]
  /\ UNCHANGED <<client, cache, calls, torn, ran>>

\* The process ends: connections are closed, and no memory survives.
ChannelEnds ==
  /\ client' = [c \in Clients |-> Idle]
  /\ sock' = [a \in Addrs |-> Free]
  /\ cache' = [a \in Addrs |-> <<>>]
  /\ torn' = FALSE
  /\ UNCHANGED <<calls, ran>>

=============================================================================
