--------------------------- MODULE SessionPromise ---------------------------
(***************************************************************************)
(* What the control protocol promises, with no sockets, threads or         *)
(* messages: the server serves one client at a time, from a fresh INIT     *)
(* session; each client has at most one request outstanding; a request     *)
(* moves the server's session exactly once, when it is answered, and the   *)
(* client's idea of the session follows only from that answer.             *)
(***************************************************************************)
EXTENDS Rtsp

CONSTANTS Clients, NoClient

VARIABLES
  up,       \* the server process is there
  serving,  \* the client the server is serving, or NoClient
  state,    \* the server's session state
  present,  \* the clients that are connected
  view,     \* [Clients -> SessionStates]: the session as a client sees it
  asking,   \* [Clients -> its unanswered request, or "none"]
  told      \* [Clients -> its answered request, until it has seen the answer]

promiseVars == <<up, serving, state, present, view, asking, told>>

PromiseInit ==
  /\ up = TRUE
  /\ serving = NoClient
  /\ state = "INIT"
  /\ present = {}
  /\ view = [c \in Clients |-> "INIT"]
  /\ asking = [c \in Clients |-> "none"]
  /\ told = [c \in Clients |-> "none"]

Join(c) ==
  /\ up /\ c \notin present /\ serving # c /\ asking[c] = "none"
  /\ present' = present \union {c}
  /\ UNCHANGED <<up, serving, state, view, asking, told>>

(* A new session starts in INIT whatever the last one was left in. *)
Serve(c) ==
  /\ up /\ serving = NoClient
  /\ serving' = c
  /\ state' = "INIT"
  /\ UNCHANGED <<up, present, view, asking, told>>

Ask(c) ==
  /\ up /\ c \in present /\ asking[c] = "none" /\ told[c] = "none"
  /\ \E r \in RequestTypes : asking' = [asking EXCEPT ![c] = r]
  /\ UNCHANGED <<up, serving, state, present, view, told>>

(* The request of a client that has left meanwhile may still be carried    *)
(* out, but nobody is told.                                                *)
Answer(c) ==
  /\ up /\ serving = c /\ asking[c] # "none"
  /\ state' = Effect(asking[c], state)
  /\ asking' = [asking EXCEPT ![c] = "none"]
  /\ told' = IF c \in present THEN [told EXCEPT ![c] = asking[c]] ELSE told
  /\ UNCHANGED <<up, serving, present, view>>

Learn(c) ==
  /\ c \in present /\ told[c] \in {"SETUP", "PLAY"}
  /\ view' = [view EXCEPT ![c] = Effect(told[c], view[c])]
  /\ told' = [told EXCEPT ![c] = "none"]
  /\ UNCHANGED <<up, serving, state, present, asking>>

Leave(c) ==
  /\ c \in present
  /\ present' = present \ {c}
  /\ view' = [view EXCEPT ![c] = "INIT"]
  /\ told' = [told EXCEPT ![c] = "none"]
  /\ UNCHANGED <<up, serving, state, asking>>

(* The server gives up a client only once the client has left, and then    *)
(* perhaps with its last request undone.                                   *)
Abandon(c) ==
  /\ up /\ serving = c /\ c \notin present
  /\ serving' = NoClient
  /\ asking' = [asking EXCEPT ![c] = "none"]
  /\ UNCHANGED <<up, state, present, view, told>>

Halt ==
  /\ up /\ up' = FALSE
  /\ serving' = NoClient /\ state' = "INIT"
  /\ asking' = [c \in Clients |-> "none"]
  /\ UNCHANGED <<present, view, told>>

PromiseNext ==
  \/ \E c \in Clients : \/ Join(c) \/ Serve(c) \/ Ask(c) \/ Answer(c)
                        \/ Learn(c) \/ Leave(c) \/ Abandon(c)
  \/ Halt

PromiseSpec == PromiseInit /\ [][PromiseNext]_promiseVars
=============================================================================
