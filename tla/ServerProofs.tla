---------------------------- MODULE ServerProofs ----------------------------
(***************************************************************************)
(* Proofs about the start of the prototype, for every list of arguments:   *)
(* it reaches its loop only with all its sockets listening, and it can be  *)
(* started again.                                                          *)
(***************************************************************************)
EXTENDS Server, TLAPS

Descriptor == [addr : Address, state : {"open", "bound", "listening"}, reuse : BOOLEAN]

Types ==
  /\ args \in Argv /\ i \in 0 .. Len(args) /\ fd \in Nat
  /\ step \in {"next", "address", "setsockopt", "unlink", "bind", "listen", "enable",
               "dispatch", "exited"}
  /\ fds \in Seq(Descriptor) /\ watched \subseteq Nat
  /\ DOMAIN owner = {Place(args[k]) : k \in DOMAIN args}

(* How many descriptors are open at each step, and which is the last.      *)
Count ==
  /\ step = "address" => i > 0 /\ Len(fds) = i - 1
  /\ step \in {"setsockopt", "unlink", "bind", "listen"} => i > 0
  /\ step \in {"setsockopt", "unlink", "bind", "listen", "enable"} => Len(fds) = i /\ fd = i
  /\ step = "enable" /\ args # <<>> => i > 0
  /\ step \in {"next", "dispatch"} => Len(fds) = i
  /\ step = "dispatch" => i = Len(args)
  /\ step = "exited" => fds = <<>> /\ watched = {}

(* A descriptor is for the argument of its number, and a place that is     *)
(* owned by one is the place of that argument.                             *)
Owned ==
  /\ \A k \in DOMAIN fds : fds[k].addr = args[k]
  /\ \A p \in DOMAIN owner :
       \/ owner[p] \in {Nobody, Earlier, Other, Kept}
       \/ /\ owner[p] \in DOMAIN fds /\ Place(args[owner[p]]) = p
          /\ fds[owner[p]].state # "open"

(* The arguments that main is past are served.                             *)
Past(k) == k < i \/ step \in {"next", "dispatch"}

Serves(k) == owner[Place(args[k])] = k /\ fds[k].state = "listening"

Opened ==
  /\ \A k \in DOMAIN fds : Past(k) => Serves(k) /\ k \in watched
  /\ step = "listen" => owner[Place(args[i])] = i
  /\ step = "enable" /\ i > 0 => Serves(i)

Watched ==
  /\ args # <<>> => watched \subseteq DOMAIN fds
  /\ args = <<>> => watched \subseteq {0}
  /\ args = <<>> /\ step = "dispatch" => watched = {0}

(* What bind needs: for a port the option is set; unlink has been called   *)
(* for a path, and only for paths.                                         *)
Prepared ==
  /\ step \in {"setsockopt", "unlink", "bind"} => fds[i].state = "open"
  /\ step = "setsockopt" => tcp(args[i])
  /\ step = "unlink" => ~ tcp(args[i])
  /\ step = "bind" => IF tcp(args[i]) THEN fds[i].reuse
                      ELSE owner[Place(args[i])] \in {Nobody, Other, Kept}
  /\ \A k \in DOMAIN args : owner[Place(args[k])] = Kept => ~ tcp(args[k])

Inv == Types /\ Count /\ Owned /\ Opened /\ Watched /\ Prepared

-----------------------------------------------------------------------------
(* Each argument has a place of its own.                                   *)
LEMMA PlacesDiffer ==
  ASSUME args \in Argv, NEW j \in DOMAIN args, NEW k \in DOMAIN args,
         Place(args[j]) = Place(args[k])
  PROVE  j = k
BY ListenAssumption

LEMMA ArgTyped ==
  ASSUME args \in Argv
  PROVE  /\ args \in Seq(Address) /\ Len(args) \in Nat /\ DOMAIN args = 1 .. Len(args)
         /\ \A k \in 1 .. Len(args) : args[k] \in Address
BY ListenAssumption

LEMMA InitInv == ListenInit => Inv
<1> SUFFICES ASSUME ListenInit PROVE Inv
  OBVIOUS
<1>1. args \in Seq(Address) /\ Len(args) \in Nat
  BY ArgTyped DEF ListenInit
<1>2. Types
  BY <1>1 DEF ListenInit, Types
<1>3. Count /\ Opened /\ Watched
  BY <1>1 DEF ListenInit, Count, Opened, Watched
<1>4. \A k \in DOMAIN args : owner[Place(args[k])] # Kept
  BY DEF ListenInit, Nobody, Earlier, Other, Kept
<1>5. Prepared
  BY <1>4 DEF ListenInit, Prepared
<1>6. Owned
  BY DEF ListenInit, Owned
<1> QED
  BY <1>2, <1>3, <1>6, <1>5 DEF Inv

(* The argument main has taken.                                            *)
LEMMA Taken ==
  ASSUME Inv, i > 0
  PROVE  /\ i \in DOMAIN args /\ Arg = args[i] /\ Arg \in Address
         /\ Place(Arg) \in DOMAIN owner
BY ArgTyped DEF Inv, Types, Arg

(* The place of the argument that is being bound is nobody's of ours.      *)
LEMMA NotOurs ==
  ASSUME Inv, step \in {"setsockopt", "unlink", "bind"}
  PROVE  owner[Place(args[i])] \in {Nobody, Earlier, Other, Kept}
<1>1. i > 0 /\ Len(fds) = i /\ fds[i].state = "open"
  BY DEF Inv, Count, Prepared
<1>2. i \in DOMAIN args /\ Place(args[i]) \in DOMAIN owner
  BY <1>1, Taken
<1>3. SUFFICES ASSUME owner[Place(args[i])] \notin {Nobody, Earlier, Other, Kept} PROVE FALSE
  OBVIOUS
<1> DEFINE o == owner[Place(args[i])]
<1>4. o \in DOMAIN fds /\ Place(args[o]) = Place(args[i]) /\ fds[o].state # "open"
  BY <1>2, <1>3 DEF Inv, Owned
<1>5. o \in DOMAIN args
  BY <1>1, <1>4, ArgTyped DEF Inv, Types
<1>6. o = i
  BY <1>2, <1>4, <1>5, PlacesDiffer DEF Inv, Types
<1> QED
  BY <1>1, <1>4, <1>6

-----------------------------------------------------------------------------
(* One field of one descriptor changes.                                    *)
LEMMA Replaced ==
  ASSUME NEW s \in Seq(Descriptor), NEW k \in DOMAIN s, NEW d \in Descriptor
  PROVE  /\ [s EXCEPT ![k] = d] \in Seq(Descriptor)
         /\ Len([s EXCEPT ![k] = d]) = Len(s)
         /\ [s EXCEPT ![k] = d][k] = d
         /\ \A j \in DOMAIN s : j # k => [s EXCEPT ![k] = d][j] = s[j]
OBVIOUS

LEMMA FieldSet ==
  ASSUME NEW d \in Descriptor, NEW x \in {"open", "bound", "listening"}
  PROVE  /\ [d EXCEPT !.state = x] \in Descriptor /\ [d EXCEPT !.reuse = TRUE] \in Descriptor
         /\ [d EXCEPT !.state = x].state = x /\ [d EXCEPT !.state = x].addr = d.addr
         /\ [d EXCEPT !.reuse = TRUE].reuse = TRUE /\ [d EXCEPT !.reuse = TRUE].addr = d.addr
         /\ [d EXCEPT !.reuse = TRUE].state = d.state
BY DEF Descriptor

-----------------------------------------------------------------------------
(* One lemma for each step main takes.                                     *)

LEMMA ServerInitInv == Inv /\ server_init => Inv'
<1> SUFFICES ASSUME Inv, server_init PROVE Inv'
  OBVIOUS
<1>1. args \in Argv /\ Len(args) \in Nat /\ (args = <<>> <=> Len(args) = 0)
  BY ArgTyped DEF Inv, Types
<1>2. Types' /\ Count'
  BY <1>1 DEF Inv, Types, Count, server_init
<1>3. Owned' /\ Watched' /\ Prepared'
  BY <1>1 DEF Inv, Owned, Watched, Prepared, server_init
<1>4. Opened'
  BY <1>1 DEF Inv, Types, Count, Opened, Past, Serves, server_init
<1> QED
  BY <1>2, <1>3, <1>4 DEF Inv

LEMMA DispatchInv == Inv /\ event_dispatch => Inv'
<1> SUFFICES ASSUME Inv, event_dispatch PROVE Inv'
  OBVIOUS
<1>1. Types' /\ Count'
  BY DEF Inv, Types, Count, event_dispatch, At
<1>2. Owned' /\ Watched' /\ Prepared'
  BY DEF Inv, Types, Owned, Watched, Prepared, event_dispatch, At
<1>3. Opened'
  BY DEF Inv, Opened, Past, Serves, event_dispatch, At
<1> QED
  BY <1>1, <1>2, <1>3 DEF Inv

LEMMA SocketInv == Inv /\ socket => Inv'
<1> SUFFICES ASSUME Inv, socket PROVE Inv'
  OBVIOUS
<1> DEFINE d == [addr |-> Arg, state |-> "open", reuse |-> FALSE]
<1>1. i > 0 /\ i \in Nat /\ Len(fds) = i - 1 /\ fds \in Seq(Descriptor)
  BY ArgTyped DEF Inv, Types, Count, socket, At
<1>2. d \in Descriptor /\ Arg = args[i] /\ args # <<>>
  BY <1>1, Taken, ArgTyped DEF Descriptor, Inv, Types
<1>3. fds' \in Seq(Descriptor) /\ Len(fds') = i /\ fds'[i] = d
      /\ \A k \in DOMAIN fds : k \in DOMAIN fds' /\ fds'[k] = fds[k]
  BY <1>1, <1>2 DEF socket
<1>4. \A k \in DOMAIN fds' : k \in DOMAIN fds \/ k = i
  BY <1>1, <1>3
<1>5. Types' /\ Count'
  BY <1>1, <1>2, <1>3 DEF Inv, Types, Count, socket, At
<1>6. Owned'
  BY <1>2, <1>3, <1>4 DEF Inv, Owned, socket
<1>7. Opened'
  BY <1>1, <1>3, <1>4 DEF Inv, Opened, Past, Serves, socket, At
<1>8. Watched' /\ Prepared'
  BY <1>2, <1>3 DEF Inv, Watched, Prepared, socket, At
<1> QED
  BY <1>5, <1>6, <1>7, <1>8 DEF Inv

LEMMA SetsockoptInv == Inv /\ setsockopt => Inv'
<1> SUFFICES ASSUME Inv, setsockopt PROVE Inv'
  OBVIOUS
<1>1. i > 0 /\ i \in Nat /\ Len(fds) = i /\ fd = i /\ fds \in Seq(Descriptor)
  BY ArgTyped DEF Inv, Types, Count, setsockopt, At
<1>2. fds' \in Seq(Descriptor) /\ Len(fds') = i /\ fds'[i].reuse = TRUE
      /\ \A k \in DOMAIN fds : fds'[k].addr = fds[k].addr /\ fds'[k].state = fds[k].state
  <2> DEFINE d == [fds[i] EXCEPT !.reuse = TRUE]
  <2>1. i \in DOMAIN fds /\ fds[i] \in Descriptor
    BY <1>1
  <2>2. fds' = [fds EXCEPT ![i] = d]
    BY <1>1 DEF setsockopt
  <2>3. d \in Descriptor /\ d.addr = fds[i].addr
        /\ d.reuse = TRUE /\ d.state = fds[i].state
    BY <2>1, FieldSet
  <2> HIDE DEF d
  <2>4. /\ fds' \in Seq(Descriptor) /\ Len(fds') = Len(fds) /\ fds'[i] = d
        /\ \A j \in DOMAIN fds : j # i => fds'[j] = fds[j]
    BY <1>1, <2>1, <2>2, <2>3, Replaced
  <2> QED
    BY <1>1, <2>3, <2>4
<1>3. DOMAIN fds' = DOMAIN fds
  BY <1>1, <1>2
<1>4. Types' /\ Count'
  BY <1>1, <1>2 DEF Inv, Types, Count, setsockopt, At
<1>5. Owned'
  BY <1>2, <1>3 DEF Inv, Owned, setsockopt
<1>6. Opened'
  BY <1>2, <1>3 DEF Inv, Opened, Past, Serves, setsockopt, At
<1>7. Watched' /\ Prepared'
  BY <1>1, <1>2, <1>3 DEF Inv, Watched, Prepared, setsockopt, At
<1> QED
  BY <1>4, <1>5, <1>6, <1>7 DEF Inv

LEMMA UnlinkInv == Inv /\ unlink => Inv'
<1> SUFFICES ASSUME Inv, unlink PROVE Inv'
  OBVIOUS
<1>1. i > 0 /\ i \in Nat /\ Len(fds) = i
  BY ArgTyped DEF Inv, Types, Count, unlink, At
<1>2. Arg = args[i] /\ i \in DOMAIN args /\ Place(Arg) \in DOMAIN owner
  BY <1>1, Taken
<1>3. DOMAIN owner' = DOMAIN owner
      /\ \A p \in DOMAIN owner : p # Place(args[i]) => owner'[p] = owner[p]
  BY <1>2 DEF unlink
<1>4. owner'[Place(args[i])] \in {Nobody, Other, Kept} /\ ~ tcp(args[i])
  <2>1. owner[Place(args[i])] \in {Nobody, Earlier, Other, Kept} /\ ~ tcp(args[i])
    BY NotOurs DEF Inv, Prepared, unlink, At
  <2> QED
    BY <1>2, <2>1 DEF unlink
<1>5. \A k \in DOMAIN fds : k < i => /\ Place(args[k]) \in DOMAIN owner
                                    /\ owner'[Place(args[k])] = owner[Place(args[k])]
  BY <1>1, <1>2, <1>3, ArgTyped, PlacesDiffer DEF Inv, Types
<1>6. Types' /\ Count'
  BY <1>1, <1>3 DEF Inv, Types, Count, unlink, At
<1>7. Owned'
  BY <1>3, <1>4 DEF Inv, Owned, unlink
<1>8. Opened'
  BY <1>5 DEF Inv, Opened, Past, Serves, unlink, At
<1>9. \A k \in DOMAIN args : owner'[Place(args[k])] = Kept => ~ tcp(args[k])
  <2> SUFFICES ASSUME NEW k \in DOMAIN args, owner'[Place(args[k])] = Kept
               PROVE  ~ tcp(args[k])
    OBVIOUS
  <2>1. CASE Place(args[k]) = Place(args[i])
    BY <1>2, <1>4, <2>1, PlacesDiffer DEF Inv, Types
  <2>2. CASE Place(args[k]) # Place(args[i])
    BY <1>3, <2>2 DEF Inv, Types, Prepared
  <2> QED
    BY <2>1, <2>2
<1>10. Watched' /\ Prepared'
  BY <1>3, <1>9, <1>4 DEF Inv, Watched, Prepared, unlink, At
<1> QED
  BY <1>6, <1>7, <1>8, <1>10 DEF Inv

LEMMA BindInv == Inv /\ bind => Inv'
<1> SUFFICES ASSUME Inv, bind PROVE Inv'
  OBVIOUS
<1>1. i > 0 /\ i \in Nat /\ Len(fds) = i /\ fd = i /\ fds \in Seq(Descriptor)
  BY ArgTyped DEF Inv, Types, Count, bind, At
<1>2. Arg = args[i] /\ i \in DOMAIN args /\ Place(Arg) \in DOMAIN owner
  BY <1>1, Taken
<1>3. DOMAIN owner' = DOMAIN owner /\ owner'[Place(args[i])] = i
      /\ \A p \in DOMAIN owner : p # Place(args[i]) => owner'[p] = owner[p]
  BY <1>1, <1>2 DEF bind
<1>4. fds' \in Seq(Descriptor) /\ Len(fds') = i /\ fds'[i].state = "bound"
      /\ \A k \in DOMAIN fds : fds'[k].addr = fds[k].addr /\ (k # i => fds'[k] = fds[k])
  <2> DEFINE d == [fds[i] EXCEPT !.state = "bound"]
  <2>1. i \in DOMAIN fds /\ fds[i] \in Descriptor
    BY <1>1
  <2>2. fds' = [fds EXCEPT ![i] = d]
    BY <1>1 DEF bind
  <2>3. d \in Descriptor /\ d.addr = fds[i].addr
        /\ d.state = "bound"
    BY <2>1, FieldSet
  <2> HIDE DEF d
  <2>4. /\ fds' \in Seq(Descriptor) /\ Len(fds') = Len(fds) /\ fds'[i] = d
        /\ \A j \in DOMAIN fds : j # i => fds'[j] = fds[j]
    BY <1>1, <2>1, <2>2, <2>3, Replaced
  <2> QED
    BY <1>1, <2>3, <2>4
<1>5. DOMAIN fds' = DOMAIN fds
  BY <1>1, <1>4
<1>6. \A k \in DOMAIN fds : k < i => /\ Place(args[k]) \in DOMAIN owner
                                    /\ owner'[Place(args[k])] = owner[Place(args[k])]
  BY <1>1, <1>2, <1>3, ArgTyped, PlacesDiffer DEF Inv, Types
<1>7. Types' /\ Count'
  BY <1>1, <1>3, <1>4 DEF Inv, Types, Count, bind, At
<1>8. Owned'
  <2>1. \A k \in DOMAIN fds' : fds'[k].addr = args'[k]
    BY <1>4, <1>5 DEF Inv, Owned, bind
  <2>2. ASSUME NEW p \in DOMAIN owner
        PROVE  \/ owner'[p] \in {Nobody, Earlier, Other, Kept}
               \/ /\ owner'[p] \in DOMAIN fds' /\ Place(args[owner'[p]]) = p
                  /\ fds'[owner'[p]].state # "open"
    BY <1>1, <1>3, <1>4, <1>5 DEF Inv, Owned
  <2> QED
    BY <1>3, <2>1, <2>2 DEF Owned, bind
<1>9. Opened'
  BY <1>1, <1>3, <1>4, <1>5, <1>6 DEF Inv, Opened, Past, Serves, bind, At
<1>10. \A k \in DOMAIN args : owner'[Place(args[k])] = Kept => ~ tcp(args[k])
  BY <1>1, <1>3 DEF Inv, Types, Prepared, Kept
<1>11. Watched' /\ Prepared'
  BY <1>5, <1>10 DEF Inv, Watched, Prepared, bind, At
<1> QED
  BY <1>7, <1>8, <1>9, <1>11 DEF Inv

LEMMA ListenInv == Inv /\ listen_ => Inv'
<1> SUFFICES ASSUME Inv, listen_ PROVE Inv'
  OBVIOUS
<1>1. i > 0 /\ i \in Nat /\ Len(fds) = i /\ fd = i /\ fds \in Seq(Descriptor)
  BY ArgTyped DEF Inv, Types, Count, listen_, At
<1>2. fds' \in Seq(Descriptor) /\ Len(fds') = i /\ fds'[i].state = "listening"
      /\ \A k \in DOMAIN fds : fds'[k].addr = fds[k].addr /\ (k # i => fds'[k] = fds[k])
  <2> DEFINE d == [fds[i] EXCEPT !.state = "listening"]
  <2>1. i \in DOMAIN fds /\ fds[i] \in Descriptor
    BY <1>1
  <2>2. fds' = [fds EXCEPT ![i] = d]
    BY <1>1 DEF listen_
  <2>3. d \in Descriptor /\ d.addr = fds[i].addr
        /\ d.state = "listening"
    BY <2>1, FieldSet
  <2> HIDE DEF d
  <2>4. /\ fds' \in Seq(Descriptor) /\ Len(fds') = Len(fds) /\ fds'[i] = d
        /\ \A j \in DOMAIN fds : j # i => fds'[j] = fds[j]
    BY <1>1, <2>1, <2>2, <2>3, Replaced
  <2> QED
    BY <1>1, <2>3, <2>4
<1>3. DOMAIN fds' = DOMAIN fds
  BY <1>1, <1>2
<1>4. Types' /\ Count'
  BY <1>1, <1>2 DEF Inv, Types, Count, listen_, At
<1>5. Owned'
  BY <1>2, <1>3 DEF Inv, Owned, listen_
<1>6. Opened'
  BY <1>1, <1>2, <1>3 DEF Inv, Opened, Past, Serves, listen_, At
<1>7. Watched' /\ Prepared'
  BY <1>3 DEF Inv, Watched, Prepared, listen_, At
<1> QED
  BY <1>4, <1>5, <1>6, <1>7 DEF Inv

LEMMA EnableInv == Inv /\ server_enable => Inv'
<1> SUFFICES ASSUME Inv, server_enable PROVE Inv'
  OBVIOUS
<1>1. i \in Nat /\ Len(fds) = i /\ fd = i /\ fds \in Seq(Descriptor) /\ DOMAIN fds = 1 .. i
      /\ (args # <<>> => i > 0) /\ (args = <<>> => i = 0)
  BY ArgTyped DEF Inv, Types, Count, server_enable, At
<1>2. Types' /\ Count'
  BY <1>1 DEF Inv, Types, Count, server_enable, At
<1>3. Owned' /\ Prepared'
  BY DEF Inv, Owned, Prepared, server_enable, At
<1>4. Opened'
  BY <1>1 DEF Inv, Opened, Past, Serves, server_enable, At
<1>5. Watched'
  BY <1>1 DEF Inv, Watched, server_enable, At
<1> QED
  BY <1>2, <1>3, <1>4, <1>5 DEF Inv

(* However far main has come, after it exits no place is owned by one of   *)
(* its descriptors.                                                        *)
LEMMA ExitInv == Inv /\ Exit => Inv'
<1> SUFFICES ASSUME Inv, Exit PROVE Inv'
  OBVIOUS
<1>1. \A p \in DOMAIN owner : owner'[p] \in {Nobody, Earlier, Other, Kept}
  BY DEF Inv, Types, Owned, Exit, Nobody, Earlier, Other, Kept
<1>2. Types' /\ Count'
  BY DEF Inv, Types, Count, Exit
<1>3. Owned'
  BY <1>1 DEF Owned, Exit
<1>4. \A k \in DOMAIN args : owner'[Place(args[k])] # Kept
  BY DEF Inv, Types, Exit, Nobody, Earlier, Other, Kept
<1>5. Opened' /\ Watched' /\ Prepared'
  BY <1>4 DEF Opened, Watched, Prepared, Exit
<1> QED
  BY <1>2, <1>3, <1>5 DEF Inv

LEMMA RestartInv == Inv /\ Restart => Inv'
<1> SUFFICES ASSUME Inv, Restart PROVE Inv'
  OBVIOUS
<1>1. Types' /\ Count'
  BY ArgTyped DEF Inv, Types, Count, Restart
<1>2. Owned' /\ Opened' /\ Watched' /\ Prepared'
  BY DEF Inv, Count, Owned, Opened, Watched, Prepared, Restart
<1> QED
  BY <1>1, <1>2 DEF Inv

LEMMA ListenStep == Inv /\ ListenNext => Inv'
BY ServerInitInv, DispatchInv, SocketInv, SetsockoptInv, UnlinkInv, BindInv, ListenInv,
   EnableInv, ExitInv, RestartInv DEF ListenNext, main, BindInUse, Fails

(* Serving connections changes nothing of this.                            *)
LEMMA ServingStep == Inv /\ UNCHANGED listen => Inv'
<1> SUFFICES ASSUME Inv, UNCHANGED listen PROVE Inv'
  OBVIOUS
<1>1. Types' /\ Count' /\ Owned'
  BY DEF Inv, Types, Count, Owned, listen
<1>2. Opened' /\ Watched' /\ Prepared'
  BY DEF Inv, Opened, Past, Serves, Watched, Prepared, listen
<1> QED
  BY <1>1, <1>2 DEF Inv

THEOREM Started == ServerSpec => []Inv
<1>1. ServerInit => Inv
  BY InitInv DEF ServerInit
<1>2. Inv /\ [ServerNext]_state => Inv'
  BY ListenStep, ServingStep DEF ServerNext, Serving, state
<1> QED
  BY <1>1, <1>2, PTL DEF ServerSpec

-----------------------------------------------------------------------------
LEMMA InvListening == Inv => Listening
<1> SUFFICES ASSUME Inv, step = "dispatch" PROVE Listening
  BY DEF Listening
<1>1. fds \in Seq(Descriptor) /\ Len(args) \in Nat /\ DOMAIN args = 1 .. Len(args)
      /\ Len(fds) = Len(args) /\ DOMAIN fds = 1 .. Len(args)
  BY ArgTyped DEF Inv, Types, Count
<1>2. \A k \in DOMAIN args : /\ k \in watched /\ owner[Place(args[k])] = k
                             /\ fds[k].addr = args[k] /\ fds[k].state = "listening"
  BY <1>1 DEF Inv, Owned, Opened, Past, Serves
<1>3. watched = IF args = <<>> THEN {0} ELSE DOMAIN fds
  BY <1>1, <1>2 DEF Inv, Watched
<1> QED
  BY <1>1, <1>2, <1>3 DEF Listening

LEMMA InvStartsAgain == Inv => StartsAgain
<1> SUFFICES ASSUME Inv, step = "bind", InUse
             PROVE  \/ owner[Place(Arg)] = Other
                    \/ owner[Place(Arg)] = Kept /\ ~ tcp(Arg)
  BY DEF StartsAgain
<1>1. Arg = args[i] /\ fd = i
  BY DEF Arg, Inv, Count
<1>2. owner[Place(args[i])] \in {Nobody, Earlier, Other, Kept}
  BY NotOurs
<1>3. owner[Place(args[i])] # Nobody
  BY <1>1 DEF InUse
<1>4. i \in DOMAIN args
  BY Taken DEF Inv, Count
<1>5. CASE tcp(args[i])
  <2>1. fds[i].reuse /\ owner[Place(args[i])] # Kept
    BY <1>4, <1>5 DEF Inv, Prepared
  <2> QED
    BY <1>1, <1>2, <1>3, <1>5, <2>1 DEF InUse
<1>6. CASE ~ tcp(args[i])
  BY <1>1, <1>3, <1>6 DEF Inv, Prepared
<1> QED
  BY <1>5, <1>6

(* The program enters its loop only with a listening socket at each of its *)
(* places, each watched, and no other descriptor (sockutil.c:56-118,       *)
(* test1.c:556-586).                                                       *)
THEOREM ServerListening == ServerSpec => []Listening
BY Started, InvListening, PTL

(* What an earlier process left is in bind's way only where it is a file   *)
(* that unlink could not remove (sockutil.c:78, 100).                      *)
THEOREM ServerStartsAgain == ServerSpec => []StartsAgain
BY Started, InvStartsAgain, PTL

(* Starting, failing and starting again included, the whole program does   *)
(* nothing but what the prototype may do from its beginning (main calls    *)
(* event_dispatch last, test1.c:583): what is proved of Spec holds of it.  *)
THEOREM ServerRunsPrototype == ServerSpec => Spec
<1>1. ServerInit => Init
  BY DEF ServerInit
<1>2. [ServerNext]_state => [Next]_vars
  BY DEF ServerNext, Serving, state
<1> QED
  BY <1>1, <1>2, PTL DEF ServerSpec, Spec
=============================================================================
