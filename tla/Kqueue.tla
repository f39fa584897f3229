------------------------------- MODULE Kqueue -------------------------------
(***************************************************************************)
(* co_epoll.cpp on BSD and macOS: the interface of epoll on a kqueue.  A   *)
(* kqueue has up to two filters for a descriptor, each with a pointer to   *)
(* the descriptor's kevent_pair_t; s_fd_map finds the pair by descriptor.  *)
(***************************************************************************)
EXTENDS Integers, Sequences, FiniteSets, SequencesExt

CONSTANTS Fd, Data,  \* what a caller puts into epoll_event.data
          NULL,
          MaxEvents  \* co_epoll_res.size

ASSUME EventsAssumption == MaxEvents \in Nat \ {0}

Filters == {"IN", "OUT"}   \* EVFILT_READ, EVFILT_WRITE; EPOLLIN, EPOLLOUT

VARIABLES isOpen,   \* the descriptors that are open
          kq,       \* the filters of the kqueue, and if their pointer is good
          fdMap,    \* s_fd_map: [Fd -> kevent_pair_t or NULL]
          events,   \* co_epoll_res.events, of which a wait sets some
          ret,      \* what the last call of co_epoll_wait returned
          eventlist,\* what the kernel reported to it
          refused,  \* history: open descriptors of which co_epoll_ctl failed,
          stale     \* and those closed since their pair was made

wait == <<events, ret, eventlist>>
vars == <<isOpen, kq, fdMap, wait, refused, stale>>

(* fire_idx is 0 between the calls of co_epoll_wait.                        *)
Pair   == [events : SUBSET Filters, u64 : Data, fire_idx : {0}]
Event  == [events : SUBSET Filters, data : Data \cup {NULL}]
Kevent == [fd : Fd, filter : Filters]

ASSUME NullAssumption == NULL \notin Pair

TypeOK == /\ isOpen \subseteq Fd
          /\ kq \in [Fd -> [Filters -> {"none", "live", "dangling"}]]
          /\ fdMap \in [Fd -> Pair \cup {NULL}]
          /\ events \in [1 .. MaxEvents -> Event]
          /\ ret \in 0 .. MaxEvents
          /\ eventlist \in Seq(Kevent) /\ Len(eventlist) <= MaxEvents
          /\ refused \subseteq Fd /\ stale \subseteq Fd

NoFilters == [f \in Filters |-> "none"]

Init == /\ isOpen = Fd
        /\ kq = [fd \in Fd |-> NoFilters]
        /\ fdMap = [fd \in Fd |-> NULL]
        /\ events = [i \in 1 .. MaxEvents |-> [events |-> {}, data |-> NULL]]
        /\ ret = 0 /\ eventlist = <<>>
        /\ refused = {} /\ stale = {}

---------------------------------------------------------------------------
(* The kernel forgets the filters of a descriptor that is closed.           *)
CloseFd(fd) == /\ fd \in isOpen
               /\ isOpen' = isOpen \ {fd}
               /\ kq' = [kq EXCEPT ![fd] = NoFilters]
               /\ refused' = refused \ {fd}
               /\ stale' = IF fdMap[fd] = NULL THEN stale ELSE stale \cup {fd}
               /\ UNCHANGED <<fdMap, wait>>

OpenFd(fd) == /\ fd \notin isOpen
              /\ isOpen' = isOpen \cup {fd}
              /\ UNCHANGED <<kq, fdMap, wait, refused, stale>>

Registered(fd) == {f \in Filters : kq[fd][f] # "none"}

(* The filters of fd once those of set were deleted and those of add added. *)
Without(fd, set) == [f \in Filters |-> IF f \in set THEN "none" ELSE kq[fd][f]]
With(filters, add) == [f \in Filters |-> IF f \in add THEN "live" ELSE filters[f]]

(* Freeing the pair leaves the filters that are still there without one.    *)
Freed(filters) == [f \in Filters |-> IF filters[f] = "none" THEN "none" ELSE "dangling"]

(* Fault: only one of the filters is deleted. *)
co_epoll_del_in(fd) ==
  /\ fdMap[fd] # NULL
  /\ kq' = [kq EXCEPT ![fd] = Freed(Without(fd, fdMap[fd].events \cap {"IN"}))]
  /\ fdMap' = [fdMap EXCEPT ![fd] = NULL]
  /\ stale' = stale \ {fd}
  /\ UNCHANGED <<isOpen, wait, refused>>

(* EPOLL_CTL_DEL; of a descriptor without a pair nothing is done. *)
co_epoll_del(fd) ==
  /\ fdMap[fd] # NULL
  /\ kq' = [kq EXCEPT ![fd] = Freed(Without(fd, fdMap[fd].events))]
  /\ fdMap' = [fdMap EXCEPT ![fd] = NULL]
  /\ stale' = stale \ {fd}
  /\ UNCHANGED <<isOpen, wait, refused>>

(* What of set kevent takes before it fails, if it does: EVFILT_READ is     *)
(* added before EVFILT_WRITE.  Nothing can be added to a closed descriptor, *)
(* and on an open one either may be refused.                                *)
Added(fd, set) == IF fd \in isOpen THEN {{}, set \ {"OUT"}, set} ELSE {{}}

(* The end of co_epoll_ctl: filters are added one by one until one fails;   *)
(* then the pair is freed, and those added before stay.  deleted is what    *)
(* the last deletion returned, which counts only if nothing is added.       *)
AddFilters(fd, filters, set, data, deleted) ==
  /\ \E added \in Added(fd, set) :
       IF added = set /\ (set # {} \/ deleted)
       THEN /\ kq' = [kq EXCEPT ![fd] = With(filters, set)]
            /\ fdMap' = [fdMap EXCEPT ![fd] = [events |-> set, u64 |-> data, fire_idx |-> 0]]
            /\ UNCHANGED refused
       ELSE /\ kq' = [kq EXCEPT ![fd] = Freed(With(filters, added))]
            /\ fdMap' = [fdMap EXCEPT ![fd] = NULL]
            /\ refused' = refused \cup ({fd} \cap isOpen)
  /\ stale' = stale \ {fd}
  /\ UNCHANGED <<isOpen, wait>>

(* EPOLL_CTL_ADD; with a pair the call fails (EEXIST). *)
co_epoll_add(fd, set, data) ==
  fdMap[fd] = NULL /\ AddFilters(fd, kq[fd], set, data, TRUE)

(* EPOLL_CTL_MOD; without a pair the call fails (ENOENT). *)
co_epoll_mod(fd, set, data) ==
  /\ fdMap[fd] # NULL
  /\ LET old == fdMap[fd].events
     IN  AddFilters(fd, Without(fd, old), set, data,
                    "OUT" \in old => "OUT" \in Registered(fd))

---------------------------------------------------------------------------
(* Fault: an event overwrites what was put for the descriptor before.       *)
PutLast(a, i, e) ==
  LET idx == IF a.fires[e.fd] = 0 THEN i ELSE a.fires[e.fd]
  IN  [events |-> [a.events EXCEPT ![idx] =
                     [events |-> {e.filter}, data |-> fdMap[e.fd].u64]],
       fires  |-> [a.fires EXCEPT ![e.fd] = idx],
       j      |-> IF a.fires[e.fd] = 0 THEN a.j + 1 ELSE a.j]

(* Fault: every event counts. *)
PutCounted(a, i, e) ==
  LET idx == IF a.fires[e.fd] = 0 THEN i ELSE a.fires[e.fd]
      old == IF a.fires[e.fd] = 0 THEN {} ELSE a.events[idx].events
  IN  [events |-> [a.events EXCEPT ![idx] =
                     [events |-> old \cup {e.filter}, data |-> fdMap[e.fd].u64]],
       fires  |-> [a.fires EXCEPT ![e.fd] = idx],
       j      |-> a.j + 1]

(* One round of the loop of co_epoll_wait, over the kernel's i-th event: a  *)
(* descriptor gets the entry with the number of its first event.            *)
Put(a, i, e) ==
  LET idx == IF a.fires[e.fd] = 0 THEN i ELSE a.fires[e.fd]
      old == IF a.fires[e.fd] = 0 THEN {} ELSE a.events[idx].events
  IN  [events |-> [a.events EXCEPT ![idx] =
                     [events |-> old \cup {e.filter}, data |-> fdMap[e.fd].u64]],
       fires  |-> [a.fires EXCEPT ![e.fd] = idx],
       j      |-> IF a.fires[e.fd] = 0 THEN a.j + 1 ELSE a.j]

Unfired == [events |-> events, j |-> 0,
            fires |-> [fd \in Fd |-> IF fdMap[fd] = NULL THEN 0 ELSE fdMap[fd].fire_idx]]

WaitLoop(list) ==
  LET loop[i \in 0 .. Len(list)] == IF i = 0 THEN Unfired ELSE Put(loop[i - 1], i, list[i])
  IN  loop[Len(list)]

(* co_epoll_wait, when kevent reports list; fire_idx is reset at the end.   *)
co_epoll_wait(list) ==
  /\ events' = WaitLoop(list).events /\ ret' = WaitLoop(list).j
  /\ eventlist' = list
  /\ fdMap' = [fd \in Fd |->
                 IF \E i \in DOMAIN list : list[i].fd = fd
                 THEN [fdMap[fd] EXCEPT !.fire_idx = 0] ELSE fdMap[fd]]
  /\ UNCHANGED <<isOpen, kq, refused, stale>>

(* What kevent can report: filters that are registered, each once, in any   *)
(* order.  (What the code reads through the pointer of a filter whose pair  *)
(* was freed is undefined, and no step of the model.)                       *)
Reports == LET fired == {k \in Kevent : kq[k.fd][k.filter] = "live"}
           IN  {list \in UNION {[1 .. n -> fired] : n \in 0 .. MaxEvents} : IsInjective(list)}

Next == \/ \E fd \in Fd : CloseFd(fd) \/ OpenFd(fd) \/ co_epoll_del(fd)
        \/ \E fd \in Fd, set \in SUBSET Filters, data \in Data :
             co_epoll_add(fd, set, data) \/ co_epoll_mod(fd, set, data)
        \/ \E list \in Reports : co_epoll_wait(list)

Spec == Init /\ [][Next]_vars

---------------------------------------------------------------------------
Live(fd)    == {f \in Filters : kq[fd][f] = "live"}
Watched(fd) == IF fdMap[fd] = NULL THEN {} ELSE fdMap[fd].events

(* The kqueue and the map agree.  The filters that point to the pair of a   *)
(* descriptor are all those the pair names, or none once the descriptor was *)
(* closed.  A filter points to a freed pair only if co_epoll_ctl failed on  *)
(* a descriptor that is still open, and then it is the EVFILT_READ that was *)
(* added before EVFILT_WRITE was refused: deletions, and calls that         *)
(* succeed, leave none (co_epoll_ctl and co_epoll_del).                     *)
FiltersHavePairs ==
  /\ TypeOK
  /\ \A fd \in Fd :
       /\ Live(fd) = IF fd \in stale THEN {} ELSE Watched(fd)
       /\ kq[fd]["IN"] = "dangling" => fd \in refused
       /\ kq[fd]["OUT"] # "dangling"

Fired(fd) == {eventlist[i].filter : i \in {i \in DOMAIN eventlist : eventlist[i].fd = fd}}

(* The entries 1 to n that a wait has set hold, for the descriptors that    *)
(* fired, all that fired of them.                                           *)
EntriesFor(n, before) ==
  \A fd \in Fd : Fired(fd) # {} =>
    \E i \in 1 .. n : events[i].events = Fired(fd) /\ events[i].data = before[fd].u64

(* co_epoll_wait counts a descriptor once however many of its filters fire, *)
(* whatever the order in which the kernel reports them.                     *)
CountedOnce == ret = Cardinality({eventlist[i].fd : i \in DOMAIN eventlist})

(* The entries, wherever they are, are complete and carry the caller's data *)
(* (ev->data.u64 = ptr->u64).                                               *)
EntriesMerged == [][eventlist' # eventlist => EntriesFor(Len(eventlist), fdMap)']_vars
=============================================================================
