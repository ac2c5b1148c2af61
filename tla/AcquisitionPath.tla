-------------------------- MODULE AcquisitionPath --------------------------
(***************************************************************************)
(* The card and the process that empties it: the two threads and the       *)
(* semaphores of DaqPipeline fed from the card's ring, and no longer from  *)
(* an environment that always has a packet. The card is what CardDriver    *)
(* implements: a bounded queue, here the sequence card; a node is          *)
(* published in one step.                                                  *)
(*                                                                         *)
(* dev_read does not look whether the ring holds anything and returns 0,   *)
(* so the process relies on its own poll; it waits for a free slot between *)
(* the two, for as long as the other thread takes.                         *)
(***************************************************************************)
EXTENDS DaqPipeline

CONSTANT CardCapacity   \* QUEUE_DEPTH - 1 nodes of the card's own ring

ASSUME CardAssumption == CardCapacity \in Nat \ {0}

VARIABLE card    \* the published nodes, oldest first

pathVars == <<vars, card>>

\* acqusition_data_thread holds the device open. (A thread that returned may
\* have left it open; then nothing more happens to the card.)
DeviceOpen == apc \in {"poll", "wait", "read", "post"}

-----------------------------------------------------------------------------
PathInit == Init /\ card = <<>>

\* The kernel thread fills a node and publishes it, if the ring has room. A
\* filled node begins with the bytes 0 and 1, a packet_len of 256. With no
\* parameters set, or a product of 0 (they may change at any time), a node is
\* published as it was: any packet.
CardPublish(p) ==
  /\ mpc # "gone"
  /\ Len(card) < CardCapacity
  /\ card' = Append(card, p)
  /\ UNCHANGED vars

\* rmmod and insmod, which the kernel refuses while the device is open.
CardReload ==
  /\ mpc # "gone" /\ ~DeviceOpen
  /\ card' = <<>>
  /\ UNCHANGED vars

\* Mistake: whatever epoll_wait returns is taken for data.
PathPollAlways == APoll /\ UNCHANGED card

\* epoll_wait: dev_poll finds the cursors apart.
PathPoll == card # <<>> /\ APoll /\ UNCHANGED card

\* Mistake: the card is left where it was.
PathReadKeeps ==
  \E p \in Packets :
    (card # <<>> => p = Head(card)) /\ ARead(p) /\ UNCHANGED card

\* dev_read copies the oldest node and advances the tail. It would hand out
\* any node of an empty ring.
PathRead ==
  \E p \in Packets :
    /\ card # <<>> => p = Head(card)
    /\ ARead(p)
    /\ card' = IF card = <<>> THEN card ELSE Tail(card)

PathAcqRuns ==
  \/ (AStart \/ AWait \/ APost) /\ UNCHANGED card
  \/ PathPoll \/ PathRead

\* This driver never fails a read; one of another driver has taken no packet.
PathReadFails == AReadFails /\ UNCHANGED card

PathDealRuns == DealRuns /\ UNCHANGED card

PathMain == Main /\ UNCHANGED card

Card == (\E p \in Packets : CardPublish(p)) \/ CardReload

PathNext ==
  PathMain \/ PathAcqRuns \/ PathReadFails \/ PathDealRuns \/ Card

PathSpec == PathInit /\ [][PathNext]_pathVars

\* epoll_wait is owed its return once the card holds data: the descriptor is
\* level triggered. The card is owed nothing.
PathFairSpec ==
  /\ PathSpec
  /\ WF_pathVars((MCreateAcq \/ MCreateDeal \/ MInitFull \/ MInitEmpty)
                   /\ UNCHANGED card)
  /\ WF_pathVars(PathAcqRuns \/ PathReadFails)
  /\ WF_pathVars(PathDealRuns)

-----------------------------------------------------------------------------
\* The poll is still right when the read it was made for comes, however long
\* the thread waited for a slot in between: the process is the only reader of
\* the card, and the card is not cleared under an open descriptor.
PolledDataIsThere == apc \in {"wait", "read"} => card # <<>>

\* Card and process together are one queue: from the kernel thread to the deal
\* thread packets keep their order, none is read twice and none that fits is
\* lost while the device is open, whatever the two rings hold at the time.
Path == INSTANCE BoundedQueue WITH
  Capacity <- CardCapacity + QUEUE_DEPTH,
  Users    <- {"deal"},
  Nothing  <- Blank,
  q        <- [i \in 1 .. Backlog |->
                 daq_data[(queue_tail + i - 1) % QUEUE_DEPTH]] \o card,
  out      <- [u \in {"deal"} |-> dealt],
  attached <- IF DeviceOpen THEN {"deal"} ELSE {}

PathIsQueue == Path!Spec

-----------------------------------------------------------------------------
(* Liveness.                                                               *)

\* The oldest packet anywhere between the kernel thread and the deal thread.
OldestFits ==
  \/ Backlog > 0 /\ daq_data[queue_tail] \notin Oversize
  \/ Backlog = 0 /\ card # <<>> /\ Head(card) \notin Oversize

\* Once the service has come up with nobody forgotten, every packet the card
\* publishes and that fits is dealt with when its turn has come: nobody stops
\* for ever between the poll and the semaphores, unless failed reads have used
\* up every slot. What has come as far as the process's own ring is dealt with
\* even then.
PublishedIsDealt ==
  /\ FittingPacketIsDealt
  /\ \A i \in Slots :
       (Working /\ DeviceOpen /\ queue_tail = i /\ OldestFits)
         ~> (queue_tail # i \/ mpc = "gone" \/ failed = QUEUE_DEPTH)
=============================================================================
