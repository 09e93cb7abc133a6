------------------------------- MODULE I3Ipc -------------------------------
(***************************************************************************)
(* The request of modules/i3ipc.h that the bar makes, i3ipc_get_workspaces,*)
(* against an i3 that may end and start again between any two of its       *)
(* steps.  The client connects with the first request.  If that fails it   *)
(* is in an error state, which nothing in the bar resets: every request    *)
(* then returns NULL.  Once it is ready, a write or a read that fails ends *)
(* the process: a write by SIGPIPE, a read by the abort() of               *)
(* i3ipc__error_handle, the bar never calling i3ipc_set_nopanic.           *)
(***************************************************************************)
EXTENDS Naturals

CONSTANTS
  MaxEnds     \* bound: times i3 ends

VARIABLES
  state,   \* context->state: "uninit", "ready", or "closed" (I3IPC_ERROR_CLOSED)
  sock,    \* context->sock: "none", "open", or "broken": i3 has closed its end
  wire,    \* on it: "empty", "request", "reply", or "cut", the start of a reply
  msg,     \* the reply, on the wire and then in the client's buffer
  at,      \* where the request is; "null" and "list" when it has returned
  alive,   \* the process runs
  up,      \* i3 runs
  ends     \* how often it ended

ipcvars == <<state, sock, wire, msg, at, alive, up, ends>>

ClientTypeOK ==
  /\ state \in {"uninit", "ready", "closed"}
  /\ sock \in {"none", "open", "broken"}
  /\ wire \in {"empty", "request", "reply", "cut"}
  /\ at \in {"idle", "path", "sock", "sock_events", "send", "header",
             "payload", "parse", "null", "list"}
  /\ alive \in BOOLEAN /\ up \in BOOLEAN /\ ends \in 0..MaxEnds

ClientInit(none) ==
  /\ state = "uninit" /\ sock = "none" /\ wire = "empty" /\ msg = none
  /\ at = "idle" /\ alive = TRUE /\ up \in BOOLEAN /\ ends = 0

-----------------------------------------------------------------------------
(* The client.                                                             *)

(* i3ipc_get_workspaces: a client in an error state answers NULL at once   *)
message_and_parse ==
  /\ at = "idle"
  /\ at' = CASE state = "closed" -> "null"
             [] state = "ready"  -> "send"
             [] state = "uninit" -> "path"

(* Mutant: a failed connection leaves the client to try again.             *)
init_failed_Retry == at' = "null" /\ UNCHANGED state

(* error_free of i3ipc_init_try: there is no abort on this path *)
init_failed == state' = "closed" /\ at' = "null"

(* i3 --get-socketpath.  The answer is a property of the X root window,    *)
(* which may outlive i3; the pipe, the fork or the program may fail.       *)
socketpath_cmd ==
  /\ at = "path"
  /\ \/ at' = "sock" /\ UNCHANGED state
     \/ init_failed
  /\ UNCHANGED <<sock, wire, msg, alive>>

socket_open ==
  /\ at \in {"sock", "sock_events"}
  /\ \/ /\ up
        /\ IF at = "sock"
           THEN sock' = "open" /\ at' = "sock_events" /\ UNCHANGED state
           ELSE state' = "ready" /\ at' = "send" /\ UNCHANGED sock
     \/ init_failed /\ UNCHANGED sock
  /\ UNCHANGED <<wire, msg, alive>>

(* Mutant: the error is returned; the client is closed.                    *)
error_handle_NoPanic == at' = "null" /\ state' = "closed" /\ UNCHANGED <<wire, alive>>

error_handle == alive' = FALSE /\ UNCHANGED <<at, state, wire>>

(* The request is short, and i3 reads it when it answers: it is written    *)
(* whole or not at all.                                                    *)
write_all == sock = "open" /\ wire' = "request"

message_send ==
  /\ at = "send"
  /\ \/ write_all /\ at' = "header" /\ UNCHANGED <<state, alive>>
     \/ sock = "broken" /\ error_handle
  /\ UNCHANGED <<sock, msg>>

(* What i3 wrote before it ended is read: a reply that was cut may have    *)
(* the header, and never has the payload.                                  *)
read_all == wire = "reply" \/ (wire = "cut" /\ at = "header")

read_eof == sock = "broken" /\ wire # "reply"

(* the header, then the payload *)
message_receive ==
  /\ at \in {"header", "payload"}
  /\ \/ /\ read_all
        /\ at' = IF at = "header" THEN "payload" ELSE "parse"
        /\ wire' = IF at = "header" THEN wire ELSE "empty"
        /\ UNCHANGED <<state, alive>>
     \/ read_eof /\ error_handle
  /\ UNCHANGED <<sock, msg>>

(* the reply to the only request on this socket has the right type *)
parse ==
  /\ at = "parse"
  /\ at' = "list"
  /\ UNCHANGED <<state, sock, wire, msg, alive>>

(* A step of the request *)
ClientStep ==
  /\ alive
  /\ socketpath_cmd \/ socket_open \/ message_send \/ message_receive \/ parse
  /\ UNCHANGED <<up, ends>>

(* The caller uses what the request returned and frees it.                 *)
taken(none) ==
  /\ alive
  /\ at' = "idle" /\ msg' = none
  /\ UNCHANGED <<state, sock, wire, alive, up, ends>>

-----------------------------------------------------------------------------
(* i3.                                                                     *)

I3Answers(list) ==
  /\ up /\ sock = "open" /\ wire = "request"
  /\ wire' = "reply" /\ msg' = list
  /\ UNCHANGED <<state, sock, at, alive, up, ends>>

(* i3 exits or restarts in place: it closes its end of every connection;   *)
(* a reply may be written only in part.                                    *)
I3Ends ==
  /\ up /\ ends < MaxEnds
  /\ up' = FALSE /\ ends' = ends + 1
  /\ sock' = IF sock = "open" THEN "broken" ELSE sock
  /\ wire' \in CASE wire = "request" -> {"empty"}
                 [] wire = "reply"   -> {"reply", "cut"}
                 [] OTHER            -> {wire}
  /\ UNCHANGED <<state, msg, at, alive>>

I3Starts ==
  /\ ~up
  /\ up' = TRUE
  /\ UNCHANGED <<state, sock, wire, msg, at, alive, ends>>
=============================================================================
