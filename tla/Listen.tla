------------------------------- MODULE Listen -------------------------------
(***************************************************************************)
(* How the prototype starts: main opens a listening socket for each        *)
(* argument, or takes descriptor 0, and enters the event loop              *)
(* (on-the-road/test1.c:470-520, 556-586; on-the-road/sockutil.c).         *)
(*                                                                         *)
(* Any of these calls may fail, and then the program exits.  What it       *)
(* leaves behind, then or when it is stopped later, is the file of a unix  *)
(* socket, or a port whose connections linger.  It may be started again.   *)
(***************************************************************************)
EXTENDS Integers, Sequences, FiniteSets

CONSTANTS
  Argv,        (* argument lists the program may be started with           *)
  MaxFailures  (* bound on failures before the program reaches its loop    *)

(* An argument: its text, whether the text has a ':', and the number       *)
(* behind it.                                                              *)
Address == UNION {{args[k] : k \in DOMAIN args} : args \in Argv}

(* The number is kept in a short: 0 makes the whole text a path.           *)
port(a)  == a.number % 2^16
tcp(a)   == a.colon /\ port(a) # 0
Place(a) == IF tcp(a) THEN port(a) ELSE a.text

(* The arguments of a list name different places: of two equal paths the   *)
(* second takes the first one's file away.                                 *)
ASSUME ListenAssumption ==
  /\ Argv \subseteq Seq(Address)
  /\ \A a \in Address : a.colon \in BOOLEAN /\ a.number \in Nat
  /\ \A args \in Argv : \A j, k \in DOMAIN args :
       Place(args[j]) = Place(args[k]) => j = k
  /\ MaxFailures \in Nat

VARIABLES
  args,        (* the arguments it is started with                         *)
  i,           (* how many of them main has taken                          *)
  step,        (* the system call it makes next                            *)
  fd,          (* server->ev.ev_fd                                         *)
  fds,         (* open descriptors: [addr, state, reuse]                   *)
  watched,     (* descriptors with an event in the loop                    *)
  owner,       (* place -> the descriptor bound there, or Nobody, or       *)
               (* Earlier for what a process that ended left, or Kept for  *)
               (* a file of one that unlink could not remove now, or Other *)
               (* for a process that runs                                  *)
  failures

Nobody  == 0
Earlier == -1
Other   == -2
Kept    == -3

listen == <<args, i, step, fd, fds, watched, owner, failures>>

ListenInit ==
  /\ args \in Argv
  /\ i = 0 /\ step = "next" /\ fd = 0
  /\ fds = <<>> /\ watched = {}
  /\ owner \in [{Place(args[k]) : k \in DOMAIN args} -> {Nobody, Earlier, Other}]
  /\ failures = 0

Arg == args[i]
At(from, to) == step = from /\ step' = to

(* main: without arguments the one server keeps descriptor 0, on which the *)
(* process that started it listens already; then the next argument, or the *)
(* loop.                                                                   *)
server_init ==
  /\ step = "next" /\ (args = <<>> => watched = {}) /\ (args # <<>> => i < Len(args))
  /\ IF args = <<>> THEN step' = "enable" /\ UNCHANGED i
     ELSE step' = "address" /\ i' = i + 1
  /\ fd' = 0
  /\ UNCHANGED <<args, fds, watched, owner, failures>>

event_dispatch ==
  /\ At("next", "dispatch") /\ i = Len(args) /\ (args = <<>> => watched # {})
  /\ failures' = 0
  /\ UNCHANGED <<args, i, fd, fds, watched, owner>>

-----------------------------------------------------------------------------
(* sockutil_bind.                                                          *)

socket ==
  /\ At("address", IF tcp(Arg) THEN "setsockopt" ELSE "unlink")
  /\ fd' = Len(fds) + 1
  /\ fds' = Append(fds, [addr |-> Arg, state |-> "open", reuse |-> FALSE])
  /\ UNCHANGED <<args, i, watched, owner, failures>>

(* A bug that would be easy to make: the option left out.                  *)
setsockopt_without_reuse ==
  /\ At("setsockopt", "bind")
  /\ UNCHANGED <<args, i, fd, fds, watched, owner, failures>>

setsockopt ==
  /\ At("setsockopt", "bind")
  /\ fds' = [fds EXCEPT ![fd].reuse = TRUE]
  /\ UNCHANGED <<args, i, fd, watched, owner, failures>>

(* A bug that would be easy to make: the file of an earlier process left.  *)
unlink_nothing ==
  /\ At("unlink", "bind")
  /\ UNCHANGED <<args, i, fd, fds, watched, owner, failures>>

(* What unlink answers is not looked at (sockutil.c:100): a file that it   *)
(* may not remove, of another user or in a directory it may not write,     *)
(* stays.                                                                  *)
unlink ==
  /\ At("unlink", "bind")
  /\ \/ owner' = [owner EXCEPT ![Place(Arg)] = Nobody]
     \/ owner' = [owner EXCEPT ![Place(Arg)] = IF @ = Earlier THEN Kept ELSE @]
  /\ UNCHANGED <<args, i, fd, fds, watched, failures>>

(* EADDRINUSE: a file at the path; a port with another socket, or with     *)
(* lingering connections and without SO_REUSEADDR.                         *)
InUse == LET o == owner[Place(Arg)]
         IN  o # Nobody /\ ~ (o = Earlier /\ tcp(Arg) /\ fds[fd].reuse)

bind ==
  /\ At("bind", "listen") /\ ~ InUse
  /\ owner' = [owner EXCEPT ![Place(Arg)] = fd]
  /\ fds' = [fds EXCEPT ![fd].state = "bound"]
  /\ UNCHANGED <<args, i, fd, watched, failures>>

listen_ ==
  /\ At("listen", "enable")
  /\ fds' = [fds EXCEPT ![fd].state = "listening"]
  /\ UNCHANGED <<args, i, fd, watched, owner, failures>>

server_enable ==
  /\ At("enable", "next")
  /\ watched' = watched \cup {fd}
  /\ UNCHANGED <<args, i, fd, fds, owner, failures>>

-----------------------------------------------------------------------------
(* A bug that would be easy to make: main goes on to the next argument.    *)
ExitWarning ==
  /\ step' = "next"
  /\ UNCHANGED <<args, i, fd, fds, watched, owner>>

(* server_bind returns NULL and main exits, or an assertion fails (the     *)
(* program is built with them, test1.c:587).  sockutil_bind leaves the descriptor open; the end   *)
(* of the process closes it.                                               *)
Exit ==
  /\ step' = "exited"
  /\ fds' = <<>> /\ watched' = {} /\ fd' = 0
  /\ owner' = [p \in DOMAIN owner |->
                 IF owner[p] \in {Nobody, Other} THEN owner[p] ELSE Earlier]
  /\ UNCHANGED <<args, i>>

BindInUse == step = "bind" /\ InUse /\ Exit /\ UNCHANGED failures

(* What may fail: the lookup of a host name and socket; setsockopt; the    *)
(* length of a path, after unlink, and bind; listen; the ioctl of          *)
(* server_enable.                                                          *)
Fails ==
  /\ failures < MaxFailures
  /\ step \in {"address", "setsockopt", "bind", "listen", "enable"}
  /\ failures' = failures + 1
  /\ Exit

Restart ==
  /\ step = "exited"
  /\ step' = "next" /\ i' = 0
  /\ UNCHANGED <<args, fd, fds, watched, owner, failures>>

main == \/ server_init \/ event_dispatch
        \/ socket \/ setsockopt \/ unlink \/ bind \/ listen_ \/ server_enable
        \/ BindInUse

ListenNext == main \/ Fails \/ Restart

-----------------------------------------------------------------------------
(* In the loop, each argument has its listening socket, which is the one a *)
(* client of that address reaches and which the loop watches, and no other *)
(* descriptor is open: none of the early returns of sockutil_bind, which   *)
(* all leave theirs (sockutil.c:80, 103, 109, 114), leads here.            *)
Listening ==
  step = "dispatch" =>
    /\ watched = (IF args = <<>> THEN {0} ELSE DOMAIN fds)
    /\ Len(fds) = Len(args)
    /\ \A k \in DOMAIN args : \E f \in watched :
         owner[Place(args[k])] = f /\ fds[f].addr = args[k] /\ fds[f].state = "listening"

(* The program can be started again: whatever a process that ended left,   *)
(* files of unix sockets and ports with lingering connections, and         *)
(* wherever it ended, bind finds an address in use only for a process that *)
(* runs, or for a file that unlink tried to remove just before and could   *)
(* not (sockutil.c:78, 100).                                               *)
StartsAgain ==
  step = "bind" /\ InUse =>
    \/ owner[Place(Arg)] = Other
    \/ owner[Place(Arg)] = Kept /\ ~ tcp(Arg)
=============================================================================
