------------------------- MODULE ChannelFiltersProofs -------------------------
(***************************************************************************)
(* Theorems about ChannelFilters, for every value of its constants: what   *)
(* filters are told comes in order, a deleted channel is forgotten, and a  *)
(* Send through a filter leaves nothing behind and reports success only if *)
(* it was answered: one induction, on IInv.  On top of it are two more:    *)
(* what the listener hears comes in order, and a worker that is blocked in *)
(* Send has an event to come.                                              *)
(***************************************************************************)
EXTENDS ChannelFilters, SequenceTheorems, TLAPS

----------------------------------------------------------------------------
(* The inductive invariant.                                                *)

\* Tasks about a filter carry one, and a worker in Send has one.
FiltersAreKnown ==
  /\ \A i \in DOMAIN ipc_loop :
       ipc_loop[i].kind \in {"add", "remove", "filter send"} => ipc_loop[i].filter \in Filters
  /\ \A w \in Workers : at[w] # "idle" => using[w] \in Filters

\* The channel is created and opened by the first tasks of the IPC thread:
\* until it is, no filter has been told anything.
Opening ==
  /\ channel = "none" => /\ Len(ipc_loop) >= 2
                         /\ ipc_loop[1].kind = "create" /\ ipc_loop[2].kind = "opened"
  /\ channel = "made" => Len(ipc_loop) >= 1 /\ ipc_loop[1].kind = "opened"
  /\ \A i \in DOMAIN ipc_loop :
       /\ ipc_loop[i].kind = "create" => channel = "none" /\ i = 1
       /\ ipc_loop[i].kind = "opened" => \/ channel = "none" /\ i = 2
                                         \/ channel = "made" /\ i = 1
  /\ channel \in {"none", "made"} => \A f \in Filters : told[f] = <<>>

\* Nobody knows a filter yet.
Unknown(f) == f \notin ToSet(filters) /\ told[f] = <<>> /\ ~filter_channel[f]

IsAdd(task, f) == task.kind = "add" /\ task.filter = f

\* A filter is added once: while it is new, and while the task that adds it
\* waits, nobody knows it.
AddedOnce ==
  /\ \A i, j \in DOMAIN filters : filters[i] = filters[j] => i = j
  /\ \A f \in Filters : \A i \in DOMAIN ipc_loop :
       IsAdd(ipc_loop[i], f) =>
         /\ client[f] # "new" /\ Unknown(f)
         /\ \A j \in DOMAIN ipc_loop : IsAdd(ipc_loop[j], f) => i = j
  /\ \A f \in Filters : client[f] = "new" => Unknown(f)

\* What filters that are in the list were told, and what the first message of
\* the peer will tell them.
ListedFilters ==
  /\ \A f \in ToSet(filters) :
       /\ "removed" \notin ToSet(told[f]) /\ "closing" \notin ToSet(told[f])
       /\ channel = "open" => told[f] # <<>> /\ told[f][1] = "added"
  /\ \A i \in DOMAIN input : input[i].kind = "hello" =>
       i = 1 /\ \A f \in Filters : "connected" \notin ToSet(told[f])

\* A filter keeps the channel while it is in the list, or once it was removed.
ChannelIsKnown ==
  \A f \in Filters : filter_channel[f] => f \in ToSet(filters) \/ Removed(f)

\* A reply without an error is an answer of the peer.
RepliesAreAnswers ==
  \A i \in DOMAIN input :
    input[i].kind = "reply" /\ input[i].ok => input[i].id \in answered

FilterInv ==
  /\ Opening /\ AddedOnce /\ ListedFilters /\ ChannelIsKnown
  /\ FilterLifeCycle /\ DeletedChannelIsForgotten

WorkerInv == PendingEntryIsOnStack /\ RepliesAreAnswers /\ ResultWasAnswered

IInv == TypeOK /\ FiltersAreKnown /\ FilterInv /\ WorkerInv

----------------------------------------------------------------------------
(* The helpers.                                                            *)

\* PostIpc puts a task at the end.
LEMMA Posted ==
  ASSUME ipc_loop \in Seq(IpcTask), NEW t \in IpcTask, PostIpc(t)
  PROVE  /\ Len(ipc_loop) \in Nat /\ DOMAIN ipc_loop = 1 .. Len(ipc_loop)
         /\ ipc_loop' \in Seq(IpcTask)
         /\ Len(ipc_loop') = Len(ipc_loop) + 1 /\ DOMAIN ipc_loop' = 1 .. Len(ipc_loop) + 1
         /\ \A i \in 1 .. Len(ipc_loop) : ipc_loop'[i] = ipc_loop[i]
         /\ ipc_loop'[Len(ipc_loop) + 1] = t
<1>1. ipc_loop' = Append(ipc_loop, t)
  BY DEF PostIpc
<1> QED
  BY <1>1, AppendProperties, LenProperties

\* RunIpcTask takes the first task.
LEMMA Taken ==
  ASSUME ipc_loop \in Seq(IpcTask), ipc_loop # <<>>, ipc_loop' = Tail(ipc_loop)
  PROVE  /\ Len(ipc_loop) \in Nat \ {0} /\ DOMAIN ipc_loop = 1 .. Len(ipc_loop)
         /\ NextTask = ipc_loop[1] /\ NextTask \in IpcTask
         /\ ipc_loop' \in Seq(IpcTask)
         /\ Len(ipc_loop') = Len(ipc_loop) - 1 /\ DOMAIN ipc_loop' = 1 .. Len(ipc_loop) - 1
         /\ \A i \in 1 .. Len(ipc_loop) - 1 : ipc_loop'[i] = ipc_loop[i + 1]
<1>1. Len(ipc_loop) \in Nat \ {0}
  BY EmptySeq
<1>2. Head(ipc_loop) = ipc_loop[1]
  BY <1>1
<1> QED
  BY <1>1, <1>2, HeadTailProperties, LenProperties DEF NextTask

\* What a sequence of notifications has after one more.
LEMMA OneMore ==
  ASSUME NEW s \in Seq(Notification), NEW n \in Notification
  PROVE  /\ Len(s) \in Nat /\ DOMAIN s = 1 .. Len(s)
         /\ s \o <<n>> \in Seq(Notification)
         /\ DOMAIN (s \o <<n>>) = 1 .. Len(s) + 1 /\ Len(s \o <<n>>) = Len(s) + 1
         /\ \A i \in 1 .. Len(s) : (s \o <<n>>)[i] = s[i]
         /\ (s \o <<n>>)[Len(s) + 1] = n
         /\ ToSet(s \o <<n>>) = ToSet(s) \cup {n}
<1>1. /\ <<n>> \in Seq(Notification) /\ Len(<<n>>) = 1 /\ <<n>>[1] = n
      /\ Len(s) \in Nat /\ DOMAIN s = 1 .. Len(s)
  BY LenProperties
<1>2. /\ s \o <<n>> \in Seq(Notification) /\ Len(s \o <<n>>) = Len(s) + 1
      /\ \A i \in 1 .. Len(s) + 1 :
           (s \o <<n>>)[i] = IF i <= Len(s) THEN s[i] ELSE <<n>>[i - Len(s)]
  BY <1>1, ConcatProperties
<1>3. DOMAIN (s \o <<n>>) = 1 .. Len(s) + 1
  BY <1>2, LenProperties
<1>4. \A i \in 1 .. Len(s) : (s \o <<n>>)[i] = s[i]
  BY <1>1, <1>2
<1>5. (s \o <<n>>)[Len(s) + 1] = n
  BY <1>1, <1>2
<1>6. ToSet(s \o <<n>>) = ToSet(s) \cup {n}
  <2>1. ASSUME NEW i \in 1 .. Len(s) + 1
        PROVE  (s \o <<n>>)[i] \in ToSet(s) \cup {n}
    BY <1>1, <1>4, <1>5 DEF ToSet
  <2>2. ASSUME NEW i \in 1 .. Len(s)
        PROVE  s[i] \in ToSet(s \o <<n>>)
    BY <1>1, <1>3, <1>4 DEF ToSet
  <2>3. n \in ToSet(s \o <<n>>)
    BY <1>1, <1>3, <1>5 DEF ToSet
  <2> QED
    BY <1>1, <1>3, <2>1, <2>2, <2>3 DEF ToSet
<1> QED
  BY <1>1, <1>2, <1>3, <1>4, <1>5, <1>6

\* What FilterLifeCycle says of one filter.
Life(s) ==
  \A i \in DOMAIN s :
    /\ s[i] = "removed" => i = Len(s)
    /\ s[i] = "closing" => i + 1 = Len(s)
    /\ s[i] = "added" => i = 1
    /\ s[i] = "connected" => s[1] = "added" /\ \A j \in 1 .. i - 1 : s[j] # "connected"

\* A filter that was told nothing.
LEMMA ToldNothing ==
  ASSUME NEW s, s = <<>>
  PROVE  /\ s \in Seq(Notification) /\ Len(s) = 0 /\ DOMAIN s = {} /\ ToSet(s) = {}
         /\ Life(s)
<1>1. s \in Seq(Notification) /\ Len(s) = 0
  OBVIOUS
<1>2. DOMAIN s = {}
  BY <1>1, LenProperties
<1>3. ToSet(s) = {}
  BY <1>2 DEF ToSet
<1> QED
  BY <1>1, <1>2, <1>3 DEF Life

LEMMA LifeForm == FilterLifeCycle <=> \A f \in Filters : Life(told[f])
  BY DEF FilterLifeCycle, Life

LEMMA LifeFormPrimed == FilterLifeCycle' <=> \A f \in Filters : Life(told'[f])
  BY DEF FilterLifeCycle, Life

\* A filter in the list may be told the next thing.
LEMMA LifeGoesOn ==
  ASSUME NEW s \in Seq(Notification), NEW n \in Notification, Life(s), n # "closing",
         "removed" \notin ToSet(s), "closing" \notin ToSet(s),
         n = "added" => s = <<>>,
         n = "connected" => s # <<>> /\ s[1] = "added" /\ "connected" \notin ToSet(s)
  PROVE  Life(s \o <<n>>)
<1> DEFINE t == s \o <<n>>
<1>1. /\ Len(s) \in Nat /\ DOMAIN s = 1 .. Len(s)
      /\ DOMAIN t = 1 .. Len(s) + 1 /\ Len(t) = Len(s) + 1
      /\ \A i \in 1 .. Len(s) : t[i] = s[i]
      /\ t[Len(s) + 1] = n
  BY OneMore
<1>2. \A i \in 1 .. Len(s) : s[i] \in ToSet(s)
  BY <1>1 DEF ToSet
<1>3. s = <<>> => Len(s) = 0
  OBVIOUS
<1>4. s # <<>> => Len(s) >= 1
  BY EmptySeq
<1> HIDE DEF t
<1>5. ASSUME NEW i \in 1 .. Len(s)
      PROVE  /\ t[i] = "removed" => i = Len(t)
             /\ t[i] = "closing" => i + 1 = Len(t)
             /\ t[i] = "added" => i = 1
             /\ t[i] = "connected" => t[1] = "added" /\ \A j \in 1 .. i - 1 : t[j] # "connected"
  BY <1>1, <1>2 DEF Life
<1>6. /\ n = "removed" => Len(s) + 1 = Len(t)
      /\ n = "added" => Len(s) + 1 = 1
      /\ n = "connected" => t[1] = "added" /\ \A j \in 1 .. Len(s) : t[j] # "connected"
  BY <1>1, <1>2, <1>3, <1>4
<1>7. \A i \in DOMAIN t : i \in 1 .. Len(s) \/ (i = Len(s) + 1 /\ t[i] = n)
  BY <1>1
<1>8. ASSUME NEW i \in DOMAIN t
      PROVE  /\ t[i] = "removed" => i = Len(t)
             /\ t[i] = "closing" => i + 1 = Len(t)
             /\ t[i] = "added" => i = 1
             /\ t[i] = "connected" => t[1] = "added" /\ \A j \in 1 .. i - 1 : t[j] # "connected"
  <2>1. CASE i \in 1 .. Len(s)
    BY <1>5, <2>1
  <2>2. CASE i = Len(s) + 1 /\ t[i] = n
    BY <1>1, <1>6, <2>2
  <2> QED
    BY <1>7, <2>1, <2>2
<1> QED
  BY <1>8 DEF Life, t

\* A filter in the list is told that the channel closes, and that it is removed.
LEMMA LifeEnds ==
  ASSUME NEW s \in Seq(Notification), Life(s),
         "removed" \notin ToSet(s), "closing" \notin ToSet(s)
  PROVE  /\ s \o <<"closing", "removed">> \in Seq(Notification)
         /\ Life(s \o <<"closing", "removed">>)
         /\ "connected" \notin ToSet(s) =>
              "connected" \notin ToSet(s \o <<"closing", "removed">>)
<1> DEFINE e == <<"closing", "removed">>
           t == s \o e
<1>1. /\ e \in Seq(Notification) /\ Len(e) = 2 /\ e[1] = "closing" /\ e[2] = "removed"
      /\ Len(s) \in Nat /\ DOMAIN s = 1 .. Len(s)
  BY LenProperties DEF Notification
<1> HIDE DEF e
<1>2. /\ t \in Seq(Notification) /\ Len(t) = Len(s) + 2
      /\ \A i \in 1 .. Len(s) + 2 : t[i] = IF i <= Len(s) THEN s[i] ELSE e[i - Len(s)]
  <2>1. /\ t \in Seq(Notification) /\ Len(t) = Len(s) + Len(e)
        /\ \A i \in 1 .. Len(s) + Len(e) : t[i] = IF i <= Len(s) THEN s[i] ELSE e[i - Len(s)]
    BY <1>1, ConcatProperties
  <2> HIDE DEF t
  <2> QED
    BY <1>1, <2>1
<1>3. /\ DOMAIN t = 1 .. Len(s) + 2
      /\ \A i \in 1 .. Len(s) : t[i] = s[i]
      /\ t[Len(s) + 1] = "closing" /\ t[Len(s) + 2] = "removed"
  BY <1>1, <1>2, LenProperties
<1>4. \A i \in 1 .. Len(s) : s[i] \in ToSet(s)
  BY <1>1 DEF ToSet
<1> HIDE DEF t
<1>5. ASSUME NEW i \in DOMAIN t
      PROVE  /\ t[i] = "removed" => i = Len(t)
             /\ t[i] = "closing" => i + 1 = Len(t)
             /\ t[i] = "added" => i = 1
             /\ t[i] = "connected" => t[1] = "added" /\ \A j \in 1 .. i - 1 : t[j] # "connected"
  <2>1. CASE i \in 1 .. Len(s)
    BY <1>1, <1>2, <1>3, <1>4, <2>1 DEF Life
  <2>2. CASE i = Len(s) + 1 \/ i = Len(s) + 2
    BY <1>1, <1>2, <1>3, <2>2
  <2> QED
    BY <1>1, <1>3, <2>1, <2>2
<1>6. Life(t)
  BY <1>5 DEF Life
<1>7. ASSUME "connected" \notin ToSet(s), NEW i \in DOMAIN t
      PROVE  t[i] # "connected"
  BY <1>1, <1>3, <1>4, <1>7
<1>8. "connected" \notin ToSet(s) => "connected" \notin ToSet(t)
  BY <1>7 DEF ToSet
<1> QED
  BY <1>2, <1>6, <1>8 DEF t, e

----------------------------------------------------------------------------
(* What filters are told, action by action.                                *)

\* The variables FilterInv speaks of, the tasks and the input apart.
toldVars == <<channel, filters, told, filter_channel, client>>

LEMMA QuietKeeps ==
  ASSUME FilterInv, UNCHANGED <<toldVars, ipc_loop, input>>
  PROVE  FilterInv'
BY DEF FilterInv, toldVars, Opening, AddedOnce, Unknown, ListedFilters, ChannelIsKnown,
       Removed, FilterLifeCycle, DeletedChannelIsForgotten

\* A task that adds nothing is posted.
LEMMA PostKeeps ==
  ASSUME TypeOK, FilterInv, UNCHANGED <<toldVars, input>>,
         NEW t \in IpcTask, t.kind \notin {"create", "opened", "add"}, PostIpc(t)
  PROVE  FilterInv'
<1>1. /\ Len(ipc_loop) \in Nat /\ DOMAIN ipc_loop = 1 .. Len(ipc_loop)
      /\ Len(ipc_loop') = Len(ipc_loop) + 1 /\ DOMAIN ipc_loop' = 1 .. Len(ipc_loop) + 1
      /\ \A i \in 1 .. Len(ipc_loop) : ipc_loop'[i] = ipc_loop[i]
      /\ ipc_loop'[Len(ipc_loop) + 1] = t
  BY Posted DEF TypeOK
<1>2. Opening'
  BY <1>1 DEF FilterInv, Opening, toldVars
<1>3. AddedOnce'
  <2>1. ASSUME NEW f \in Filters, NEW i \in DOMAIN ipc_loop', IsAdd(ipc_loop'[i], f)
        PROVE  i \in DOMAIN ipc_loop /\ IsAdd(ipc_loop[i], f)
    BY <1>1, <2>1 DEF IsAdd
  <2> QED
    BY <2>1 DEF FilterInv, AddedOnce, Unknown, toldVars
<1>4. (ListedFilters /\ ChannelIsKnown /\ FilterLifeCycle /\ DeletedChannelIsForgotten)'
  BY DEF FilterInv, ListedFilters, ChannelIsKnown, Removed, FilterLifeCycle,
         DeletedChannelIsForgotten, toldVars
<1> QED
  BY <1>2, <1>3, <1>4 DEF FilterInv

LEMMA AddFilterKeeps ==
  ASSUME TypeOK, FilterInv, NEW f \in Filters, AddFilter(f)
  PROVE  FilterInv'
<1> DEFINE t == FilterTask("add", f, NoId)
<1>0. t \in IpcTask /\ t.kind = "add" /\ t.filter = f
  BY ConstantsOK DEF FilterTask, IpcTask, Ids, NoId
<1> HIDE DEF t
<1>1. /\ Len(ipc_loop) \in Nat /\ DOMAIN ipc_loop = 1 .. Len(ipc_loop)
      /\ Len(ipc_loop') = Len(ipc_loop) + 1 /\ DOMAIN ipc_loop' = 1 .. Len(ipc_loop) + 1
      /\ \A i \in 1 .. Len(ipc_loop) : ipc_loop'[i] = ipc_loop[i]
      /\ ipc_loop'[Len(ipc_loop) + 1] = t
  BY <1>0, Posted DEF TypeOK, AddFilter, t
<1>2. /\ UNCHANGED <<channel, filters, told, filter_channel, input>>
      /\ client \in [Filters -> {"new", "given", "taken"}]
      /\ client[f] = "new" /\ client' = [client EXCEPT ![f] = "given"]
  BY DEF AddFilter, TypeOK, filterVars, peerVars, channelVars
<1>3. Opening'
  BY <1>0, <1>1, <1>2 DEF FilterInv, Opening
<1>4. AddedOnce'
  <2>1. ASSUME NEW g \in Filters, NEW i \in DOMAIN ipc_loop', IsAdd(ipc_loop'[i], g)
        PROVE  \/ g # f /\ i \in DOMAIN ipc_loop /\ IsAdd(ipc_loop[i], g)
               \/ g = f /\ i = Len(ipc_loop) + 1
    BY <1>0, <1>1, <1>2, <2>1 DEF IsAdd, FilterInv, AddedOnce
  <2>2. Unknown(f) /\ client'[f] = "given"
    BY <1>2 DEF FilterInv, AddedOnce
  <2>3. \A g \in Filters : Unknown(g)' <=> Unknown(g)
    BY <1>2 DEF Unknown
  <2>4. \A g \in Filters : g # f => client'[g] = client[g]
    BY <1>2
  <2>5. ASSUME NEW g \in Filters, NEW i \in DOMAIN ipc_loop', IsAdd(ipc_loop'[i], g)
        PROVE  /\ client'[g] # "new" /\ Unknown(g)'
               /\ \A j \in DOMAIN ipc_loop' : IsAdd(ipc_loop'[j], g) => i = j
    <3>1. CASE g = f
      BY <2>1, <2>2, <2>3, <2>5, <3>1
    <3>2. CASE g # f
      BY <2>1, <2>3, <2>4, <2>5, <3>2 DEF FilterInv, AddedOnce
    <3> QED
      BY <3>1, <3>2
  <2>6. \A g \in Filters : client'[g] = "new" => Unknown(g)'
    BY <2>2, <2>3, <2>4 DEF FilterInv, AddedOnce
  <2>7. \A i, j \in DOMAIN filters' : filters'[i] = filters'[j] => i = j
    BY <1>2 DEF FilterInv, AddedOnce
  <2> QED
    BY <2>5, <2>6, <2>7 DEF AddedOnce
<1>5. (ListedFilters /\ ChannelIsKnown /\ FilterLifeCycle /\ DeletedChannelIsForgotten)'
  BY <1>2 DEF FilterInv, ListedFilters, ChannelIsKnown, Removed, FilterLifeCycle,
              DeletedChannelIsForgotten
<1> QED
  BY <1>3, <1>4, <1>5 DEF FilterInv

\* A filter that is taken away is not new.
LEMMA RemoveFilterKeeps ==
  ASSUME TypeOK, FilterInv, NEW f \in Filters, RemoveFilter(f)
  PROVE  FilterInv'
<1> DEFINE t == FilterTask("remove", f, NoId)
<1>0. t \in IpcTask /\ t.kind = "remove"
  BY ConstantsOK DEF FilterTask, IpcTask, Ids, NoId
<1> HIDE DEF t
<1>1. /\ Len(ipc_loop) \in Nat /\ DOMAIN ipc_loop = 1 .. Len(ipc_loop)
      /\ Len(ipc_loop') = Len(ipc_loop) + 1 /\ DOMAIN ipc_loop' = 1 .. Len(ipc_loop) + 1
      /\ \A i \in 1 .. Len(ipc_loop) : ipc_loop'[i] = ipc_loop[i]
      /\ ipc_loop'[Len(ipc_loop) + 1] = t
  BY <1>0, Posted DEF TypeOK, RemoveFilter, t
<1>2. /\ UNCHANGED <<channel, filters, told, filter_channel, input>>
      /\ client \in [Filters -> {"new", "given", "taken"}]
      /\ client' = [client EXCEPT ![f] = "taken"]
  BY DEF RemoveFilter, TypeOK, filterVars, peerVars, channelVars
<1>3. Opening'
  BY <1>0, <1>1, <1>2 DEF FilterInv, Opening
<1>4. AddedOnce'
  <2>1. ASSUME NEW g \in Filters, NEW i \in DOMAIN ipc_loop', IsAdd(ipc_loop'[i], g)
        PROVE  i \in DOMAIN ipc_loop /\ IsAdd(ipc_loop[i], g)
    BY <1>0, <1>1, <2>1 DEF IsAdd
  <2>2. \A g \in Filters : client'[g] = "new" <=> (client[g] = "new" /\ g # f)
    BY <1>2
  <2>3. \A g \in Filters : Unknown(g)' <=> Unknown(g)
    BY <1>2 DEF Unknown
  <2>4. ASSUME NEW g \in Filters, NEW i \in DOMAIN ipc_loop', IsAdd(ipc_loop'[i], g)
        PROVE  /\ client'[g] # "new" /\ Unknown(g)'
               /\ \A j \in DOMAIN ipc_loop' : IsAdd(ipc_loop'[j], g) => i = j
    BY <2>1, <2>2, <2>3, <2>4 DEF FilterInv, AddedOnce
  <2>5. \A g \in Filters : client'[g] = "new" => Unknown(g)'
    BY <2>2, <2>3 DEF FilterInv, AddedOnce
  <2>6. \A i, j \in DOMAIN filters' : filters'[i] = filters'[j] => i = j
    BY <1>2 DEF FilterInv, AddedOnce
  <2> QED
    BY <2>4, <2>5, <2>6 DEF AddedOnce
<1>5. (ListedFilters /\ ChannelIsKnown /\ FilterLifeCycle /\ DeletedChannelIsForgotten)'
  BY <1>2 DEF FilterInv, ListedFilters, ChannelIsKnown, Removed, FilterLifeCycle,
              DeletedChannelIsForgotten
<1> QED
  BY <1>3, <1>4, <1>5 DEF FilterInv

\* The peer's messages are no Hello.
LEMMA InputKeeps ==
  ASSUME TypeOK, FilterInv, UNCHANGED <<toldVars, ipc_loop>>,
         NEW m \in Message, m.kind # "hello", input' = Append(input, m)
  PROVE  FilterInv'
<1>1. /\ Len(input) \in Nat /\ DOMAIN input = 1 .. Len(input)
      /\ DOMAIN input' = 1 .. Len(input) + 1
      /\ \A i \in 1 .. Len(input) : input'[i] = input[i]
      /\ input'[Len(input) + 1] = m
  BY AppendProperties, LenProperties DEF TypeOK
<1>2. ListedFilters'
  BY <1>1 DEF FilterInv, ListedFilters, toldVars
<1>3. (Opening /\ AddedOnce /\ ChannelIsKnown /\ FilterLifeCycle /\ DeletedChannelIsForgotten)'
  BY DEF FilterInv, Opening, AddedOnce, Unknown, ChannelIsKnown, Removed, FilterLifeCycle,
         DeletedChannelIsForgotten, toldVars
<1> QED
  BY <1>2, <1>3 DEF FilterInv

\* What the tasks that remain know: they open nothing, and what they add is
\* unknown.
Remaining ==
  /\ \A i \in DOMAIN ipc_loop' : ipc_loop'[i].kind \notin {"create", "opened"}
  /\ \A f \in Filters : \A i \in DOMAIN ipc_loop' :
       IsAdd(ipc_loop'[i], f) =>
         /\ client[f] # "new" /\ Unknown(f)
         /\ \A j \in DOMAIN ipc_loop' : IsAdd(ipc_loop'[j], f) => i = j

\* A filter that the channel's events leave alone is as unknown as before.
LEMMA RemainingKeeps ==
  ASSUME FilterInv, Remaining, UNCHANGED client, channel' \notin {"none", "made"},
         \A i, j \in DOMAIN filters' : filters'[i] = filters'[j] => i = j,
         \A f \in Filters : \/ ~Unknown(f) /\ client[f] # "new"
                            \/ Unknown(f)'
                            \/ client[f] # "new" /\ \A i \in DOMAIN ipc_loop' : ~IsAdd(ipc_loop'[i], f)
  PROVE  Opening' /\ AddedOnce'
<1>1. Opening'
  BY DEF Opening, Remaining
<1>2. ASSUME NEW f \in Filters, NEW i \in DOMAIN ipc_loop', IsAdd(ipc_loop'[i], f)
      PROVE  /\ client'[f] # "new" /\ Unknown(f)'
             /\ \A j \in DOMAIN ipc_loop' : IsAdd(ipc_loop'[j], f) => i = j
  BY <1>2 DEF Remaining
<1>3. \A f \in Filters : client'[f] = "new" => Unknown(f)'
  BY DEF FilterInv, AddedOnce
<1> QED
  BY <1>1, <1>2, <1>3 DEF AddedOnce

\* After a task that does not open the channel.
LEMMA TaskTaken ==
  ASSUME TypeOK, FilterInv, ipc_loop # <<>>, ipc_loop' = Tail(ipc_loop),
         NextTask.kind \notin {"create", "opened"}
  PROVE  /\ Remaining
         /\ channel \notin {"none", "made"}
         /\ \A f \in Filters : IsAdd(NextTask, f) =>
              /\ client[f] # "new" /\ Unknown(f)
              /\ \A i \in DOMAIN ipc_loop' : ~IsAdd(ipc_loop'[i], f)
<1>1. /\ Len(ipc_loop) \in Nat \ {0} /\ DOMAIN ipc_loop = 1 .. Len(ipc_loop)
      /\ NextTask = ipc_loop[1]
      /\ DOMAIN ipc_loop' = 1 .. Len(ipc_loop) - 1
      /\ \A i \in 1 .. Len(ipc_loop) - 1 : ipc_loop'[i] = ipc_loop[i + 1]
  BY Taken DEF TypeOK
<1>2. channel \notin {"none", "made"}
  BY <1>1 DEF FilterInv, Opening
<1>3. ASSUME NEW i \in DOMAIN ipc_loop'
      PROVE  i + 1 \in DOMAIN ipc_loop /\ i + 1 # 1 /\ ipc_loop'[i] = ipc_loop[i + 1]
  BY <1>1
<1>4. \A i \in DOMAIN ipc_loop' : ipc_loop'[i].kind \notin {"create", "opened"}
  BY <1>2, <1>3 DEF FilterInv, Opening
<1>5. ASSUME NEW f \in Filters, NEW i \in DOMAIN ipc_loop', IsAdd(ipc_loop'[i], f)
      PROVE  /\ client[f] # "new" /\ Unknown(f)
             /\ \A j \in DOMAIN ipc_loop' : IsAdd(ipc_loop'[j], f) => i = j
  <2>1. /\ client[f] # "new" /\ Unknown(f)
        /\ \A j \in DOMAIN ipc_loop : IsAdd(ipc_loop[j], f) => i + 1 = j
    BY <1>3, <1>5 DEF FilterInv, AddedOnce
  <2>2. ASSUME NEW j \in DOMAIN ipc_loop', IsAdd(ipc_loop'[j], f)
        PROVE  i = j
    <3>1. i + 1 = j + 1
      BY <1>3, <2>1, <2>2
    <3> QED
      BY <1>1, <3>1
  <2> QED
    BY <2>1, <2>2
<1>6. ASSUME NEW f \in Filters, IsAdd(NextTask, f)
      PROVE  /\ client[f] # "new" /\ Unknown(f)
             /\ \A i \in DOMAIN ipc_loop' : ~IsAdd(ipc_loop'[i], f)
  <2>1. 1 \in DOMAIN ipc_loop /\ IsAdd(ipc_loop[1], f)
    BY <1>1, <1>6
  <2>2. /\ client[f] # "new" /\ Unknown(f)
        /\ \A j \in DOMAIN ipc_loop : IsAdd(ipc_loop[j], f) => j = 1
    BY <2>1 DEF FilterInv, AddedOnce
  <2> QED
    BY <1>3, <2>2
<1> QED
  BY <1>2, <1>4, <1>5, <1>6 DEF Remaining

\* The channel's calls, when it is open.
LEMMA OpenRemains ==
  ASSUME FilterInv, channel = "open", UNCHANGED ipc_loop
  PROVE  Remaining
BY DEF FilterInv, Opening, AddedOnce, Remaining

\* Nobody is told anything; the channel may close.
LEMMA ChannelKeeps ==
  ASSUME FilterInv, Remaining, UNCHANGED <<client, filters, told, filter_channel>>,
         channel \notin {"none", "made"},
         \/ UNCHANGED <<channel, input>>
         \/ channel' = "closed" /\ input' = <<>>
  PROVE  FilterInv'
<1>1. \A f \in Filters : Unknown(f)' <=> Unknown(f)
  BY DEF Unknown
<1>2. Opening' /\ AddedOnce'
  BY <1>1, RemainingKeeps DEF FilterInv, AddedOnce
<1>3. \A i \in DOMAIN input' : i \in DOMAIN input /\ input'[i] = input[i]
  OBVIOUS
<1>4. (ListedFilters /\ ChannelIsKnown /\ FilterLifeCycle /\ DeletedChannelIsForgotten)'
  BY <1>3 DEF FilterInv, ListedFilters, ChannelIsKnown, Removed, FilterLifeCycle,
              DeletedChannelIsForgotten
<1> QED
  BY <1>2, <1>4 DEF FilterInv

\* The channel closes, and those in the list are told of an error.
LEMMA ErrorKeeps ==
  ASSUME TypeOK, FilterInv, Remaining, UNCHANGED <<client, filters>>,
         OnChannelError, Shut("closed")
  PROVE  FilterInv'
<1>1. /\ told \in [Filters -> Seq(Notification)] /\ filter_channel \in [Filters -> BOOLEAN]
      /\ told' = [f \in Filters |-> IF f \in Unwarned THEN told[f] \o <<"error">> ELSE told[f]]
      /\ filter_channel' = [f \in Filters |-> filter_channel[f] /\ f \notin ToSet(filters)]
      /\ channel' = "closed" /\ input' = <<>>
  BY DEF TypeOK, OnChannelError, Tell, ForgetChannel, Shut
<1>2. ToSet(filters') = ToSet(filters) /\ Unwarned \subseteq ToSet(filters)
  BY DEF Unwarned
<1>3. \A f \in Filters \ ToSet(filters) :
        told'[f] = told[f] /\ filter_channel'[f] = filter_channel[f]
  BY <1>1, <1>2
<1>4. Opening' /\ AddedOnce'
  <2>1. \A f \in Filters : Unknown(f) => Unknown(f)'
    BY <1>2, <1>3 DEF Unknown
  <2>2. \A i, j \in DOMAIN filters' : filters'[i] = filters'[j] => i = j
    BY DEF FilterInv, AddedOnce
  <2> QED
    BY <1>1, <2>1, <2>2, RemainingKeeps DEF FilterInv, AddedOnce
<1>5. ASSUME NEW f \in Filters \cap ToSet(filters)
      PROVE  /\ Life(told'[f])
             /\ "removed" \notin ToSet(told'[f]) /\ "closing" \notin ToSet(told'[f])
  <2>1. /\ told[f] \in Seq(Notification) /\ Life(told[f])
        /\ "removed" \notin ToSet(told[f]) /\ "closing" \notin ToSet(told[f])
    BY <1>1, LifeForm DEF FilterInv, ListedFilters
  <2>2. CASE f \in Unwarned
    <3>1. told'[f] = told[f] \o <<"error">>
      BY <1>1, <2>2
    <3>2. Life(told[f] \o <<"error">>)
      BY <2>1, LifeGoesOn DEF Notification
    <3>3. ToSet(told[f] \o <<"error">>) = ToSet(told[f]) \cup {"error"}
      BY <2>1, OneMore DEF Notification
    <3> QED
      BY <2>1, <3>1, <3>2, <3>3
  <2>3. CASE f \notin Unwarned
    BY <1>1, <2>1, <2>3
  <2> QED
    BY <2>2, <2>3
<1>6. ToSet(filters) \subseteq Filters
  BY LenProperties DEF TypeOK, ToSet
<1>7. FilterLifeCycle'
  <2>1. \A f \in Filters \ ToSet(filters) : Life(told'[f])
    BY <1>3, LifeForm DEF FilterInv
  <2> QED
    BY <1>5, <2>1, LifeFormPrimed
<1>8. ListedFilters'
  BY <1>1, <1>2, <1>5, <1>6 DEF ListedFilters
<1>9. ChannelIsKnown'
  BY <1>1, <1>2, <1>3 DEF FilterInv, ChannelIsKnown, Removed
<1>10. DeletedChannelIsForgotten'
  BY <1>1 DEF DeletedChannelIsForgotten
<1> QED
  BY <1>4, <1>7, <1>8, <1>9, <1>10 DEF FilterInv

\* The first two tasks.
LEMMA CreateChannelKeeps ==
  ASSUME TypeOK, FilterInv, ipc_loop # <<>>, ipc_loop' = Tail(ipc_loop), UNCHANGED client,
         CreateChannel
  PROVE  FilterInv'
<1>1. /\ Len(ipc_loop) \in Nat \ {0} /\ DOMAIN ipc_loop = 1 .. Len(ipc_loop)
      /\ NextTask = ipc_loop[1]
      /\ Len(ipc_loop') = Len(ipc_loop) - 1 /\ DOMAIN ipc_loop' = 1 .. Len(ipc_loop) - 1
      /\ \A i \in 1 .. Len(ipc_loop) - 1 : ipc_loop'[i] = ipc_loop[i + 1]
  BY Taken DEF TypeOK
<1>2. /\ UNCHANGED <<filters, told, filter_channel, input>> /\ channel' = "made"
      /\ ipc_loop[1].kind = "create"
  BY <1>1 DEF CreateChannel, filterVars
<1>3. /\ channel = "none" /\ Len(ipc_loop) >= 2 /\ ipc_loop[2].kind = "opened"
      /\ \A f \in Filters : told[f] = <<>>
  BY <1>1, <1>2 DEF FilterInv, Opening
<1>4. ASSUME NEW i \in DOMAIN ipc_loop'
      PROVE  /\ i + 1 \in DOMAIN ipc_loop /\ ipc_loop'[i] = ipc_loop[i + 1]
             /\ ipc_loop'[i].kind # "create"
             /\ ipc_loop'[i].kind = "opened" => i = 1
  <2>1. i \in Nat /\ i + 1 # 1 /\ i + 1 \in DOMAIN ipc_loop /\ ipc_loop'[i] = ipc_loop[i + 1]
    BY <1>1
  <2>2. ipc_loop[i + 1].kind # "create" /\ (ipc_loop[i + 1].kind = "opened" => i + 1 = 2)
    BY <1>3, <2>1 DEF FilterInv, Opening
  <2> QED
    BY <2>1, <2>2
<1>5. Opening'
  BY <1>1, <1>2, <1>3, <1>4 DEF Opening
<1>6. \A f \in Filters : Unknown(f)' <=> Unknown(f)
  BY <1>2 DEF Unknown
<1>7. AddedOnce'
  <2>1. ASSUME NEW f \in Filters, NEW i \in DOMAIN ipc_loop', IsAdd(ipc_loop'[i], f)
        PROVE  /\ client'[f] # "new" /\ Unknown(f)'
               /\ \A j \in DOMAIN ipc_loop' : IsAdd(ipc_loop'[j], f) => i = j
    <3>1. /\ client[f] # "new" /\ Unknown(f)
          /\ \A j \in DOMAIN ipc_loop : IsAdd(ipc_loop[j], f) => i + 1 = j
      BY <1>4, <2>1 DEF FilterInv, AddedOnce
    <3>2. ASSUME NEW j \in DOMAIN ipc_loop', IsAdd(ipc_loop'[j], f)
          PROVE  i = j
      <4>1. i + 1 = j + 1
        BY <1>4, <3>1, <3>2
      <4> QED
        BY <1>1, <4>1
    <3> QED
      BY <1>6, <3>1, <3>2
  <2>2. \A i, j \in DOMAIN filters' : filters'[i] = filters'[j] => i = j
    BY <1>2 DEF FilterInv, AddedOnce
  <2>3. \A f \in Filters : client'[f] = "new" => Unknown(f)'
    BY <1>6 DEF FilterInv, AddedOnce
  <2> QED
    BY <2>1, <2>2, <2>3 DEF AddedOnce
<1>8. (ListedFilters /\ ChannelIsKnown /\ FilterLifeCycle /\ DeletedChannelIsForgotten)'
  BY <1>2 DEF FilterInv, ListedFilters, ChannelIsKnown, Removed, FilterLifeCycle,
              DeletedChannelIsForgotten
<1> QED
  BY <1>5, <1>7, <1>8 DEF FilterInv

LEMMA OpenedRemains ==
  ASSUME TypeOK, FilterInv, ipc_loop # <<>>, ipc_loop' = Tail(ipc_loop),
         NextTask.kind = "opened"
  PROVE  Remaining /\ channel = "made" /\ \A f \in Filters : told[f] = <<>>
<1>1. /\ Len(ipc_loop) \in Nat \ {0} /\ DOMAIN ipc_loop = 1 .. Len(ipc_loop)
      /\ NextTask = ipc_loop[1]
      /\ DOMAIN ipc_loop' = 1 .. Len(ipc_loop) - 1
      /\ \A i \in 1 .. Len(ipc_loop) - 1 : ipc_loop'[i] = ipc_loop[i + 1]
  BY Taken DEF TypeOK
<1>2. channel = "made" /\ \A f \in Filters : told[f] = <<>>
  BY <1>1 DEF FilterInv, Opening
<1>3. ASSUME NEW i \in DOMAIN ipc_loop'
      PROVE  i + 1 \in DOMAIN ipc_loop /\ i + 1 # 1 /\ ipc_loop'[i] = ipc_loop[i + 1]
  BY <1>1
<1>4. \A i \in DOMAIN ipc_loop' : ipc_loop'[i].kind \notin {"create", "opened"}
  BY <1>2, <1>3 DEF FilterInv, Opening
<1>5. ASSUME NEW f \in Filters, NEW i \in DOMAIN ipc_loop', IsAdd(ipc_loop'[i], f)
      PROVE  /\ client[f] # "new" /\ Unknown(f)
             /\ \A j \in DOMAIN ipc_loop' : IsAdd(ipc_loop'[j], f) => i = j
  <2>1. /\ client[f] # "new" /\ Unknown(f)
        /\ \A j \in DOMAIN ipc_loop : IsAdd(ipc_loop[j], f) => i + 1 = j
    BY <1>3, <1>5 DEF FilterInv, AddedOnce
  <2>2. ASSUME NEW j \in DOMAIN ipc_loop', IsAdd(ipc_loop'[j], f)
        PROVE  i = j
    <3>1. i + 1 = j + 1
      BY <1>3, <2>1, <2>2
    <3> QED
      BY <1>1, <3>1
  <2> QED
    BY <2>1, <2>2
<1> QED
  BY <1>2, <1>4, <1>5 DEF Remaining

LEMMA OnChannelOpenedKeeps ==
  ASSUME TypeOK, FilterInv, ipc_loop # <<>>, ipc_loop' = Tail(ipc_loop), UNCHANGED client,
         OnChannelOpened
  PROVE  FilterInv'
<1>1. Remaining /\ channel = "made" /\ \A f \in Filters : told[f] = <<>>
  BY OpenedRemains DEF OnChannelOpened
<1>2. CASE ~alive
  BY <1>1, <1>2, ErrorKeeps DEF OnChannelOpened
<1>3. CASE alive
  <2>1. /\ UNCHANGED <<filters, input>> /\ channel' = "open"
        /\ told' = [f \in Filters |-> IF f \in ToSet(filters) THEN told[f] \o <<"added">>
                                                              ELSE told[f]]
        /\ filter_channel' = [f \in Filters |-> filter_channel[f] \/ f \in ToSet(filters)]
    BY <1>3 DEF OnChannelOpened, Tell, FilterAdded
  <2>2. ToSet(filters') = ToSet(filters) /\ ToSet(filters) \subseteq Filters
    BY <2>1, LenProperties DEF TypeOK, ToSet
  <2>3. \A f \in Filters \ ToSet(filters) :
          told'[f] = <<>> /\ filter_channel'[f] = filter_channel[f]
    BY <1>1, <2>1 DEF TypeOK
  <2>4. ASSUME NEW f \in ToSet(filters)
        PROVE  /\ Life(told'[f]) /\ told'[f] # <<>> /\ told'[f][1] = "added"
               /\ "removed" \notin ToSet(told'[f]) /\ "closing" \notin ToSet(told'[f])
               /\ "connected" \notin ToSet(told'[f])
    <3>1. told[f] = <<>> /\ told[f] \in Seq(Notification) /\ ToSet(told[f]) = {}
          /\ told'[f] = told[f] \o <<"added">> /\ Len(told[f]) = 0
      BY <1>1, <2>1, <2>2, ToldNothing
    <3>2. Life(told[f])
      BY <3>1, ToldNothing
    <3>3. Life(told[f] \o <<"added">>)
      BY <3>1, <3>2, LifeGoesOn DEF Notification
    <3>4. /\ ToSet(told'[f]) = {"added"} /\ Len(told'[f]) = 1
          /\ told'[f] \in Seq(Notification) /\ told'[f][1] = "added"
      <4> DEFINE s == told[f]
      <4>1. s \in Seq(Notification) /\ "added" \in Notification /\ Len(s) = 0
        BY <3>1 DEF Notification
      <4> HIDE DEF s
      <4>2. /\ s \o <<"added">> \in Seq(Notification) /\ Len(s \o <<"added">>) = 1
            /\ (s \o <<"added">>)[1] = "added"
        BY <4>1, OneMore
      <4>3. ToSet(s \o <<"added">>) = ToSet(s) \cup {"added"}
        BY <4>1, OneMore
      <4>4. told'[f] = s \o <<"added">> /\ ToSet(s) = {}
        BY <3>1 DEF s
      <4> QED
        BY <4>2, <4>3, <4>4
    <3>5. told'[f] # <<>>
      BY <3>4
    <3> QED
      BY <3>1, <3>3, <3>4, <3>5
  <2>5. Opening' /\ AddedOnce'
    <3>1. \A f \in Filters : Unknown(f) => Unknown(f)'
      BY <1>1, <2>2, <2>3 DEF Unknown
    <3>2. \A i, j \in DOMAIN filters' : filters'[i] = filters'[j] => i = j
      BY <2>1 DEF FilterInv, AddedOnce
    <3> QED
      BY <1>1, <2>1, <3>1, <3>2, RemainingKeeps DEF FilterInv, AddedOnce
  <2>6. FilterLifeCycle'
    <3>1. \A f \in Filters \ ToSet(filters) : Life(told'[f])
      BY <2>3, ToldNothing
    <3> QED
      BY <2>4, <3>1, LifeFormPrimed
  <2>7. ListedFilters'
    <3>1. \A f \in Filters : "connected" \notin ToSet(told'[f])
      BY <2>2, <2>3, <2>4, ToldNothing
    <3>2. \A i \in DOMAIN input' : input'[i].kind = "hello" => i = 1
      BY <2>1 DEF FilterInv, ListedFilters
    <3>3. \A f \in ToSet(filters') :
            /\ "removed" \notin ToSet(told'[f]) /\ "closing" \notin ToSet(told'[f])
            /\ told'[f] # <<>> /\ told'[f][1] = "added"
      BY <2>2, <2>4
    <3> QED
      BY <3>1, <3>2, <3>3 DEF ListedFilters
  <2>8. ChannelIsKnown'
    <3>1. \A f \in Filters \ ToSet(filters) : ~filter_channel[f]
      BY <1>1, ToldNothing DEF FilterInv, ChannelIsKnown, Removed
    <3> QED
      BY <2>2, <2>3, <3>1 DEF ChannelIsKnown
  <2>9. DeletedChannelIsForgotten'
    BY <2>1 DEF DeletedChannelIsForgotten
  <2> QED
    BY <2>5, <2>6, <2>7, <2>8, <2>9 DEF FilterInv
<1> QED
  BY <1>2, <1>3

\* The channel is deleted, and forgets the filters in the list.
LEMMA OnChannelClosedKeeps ==
  ASSUME TypeOK, FilterInv, ipc_loop # <<>>, ipc_loop' = Tail(ipc_loop), UNCHANGED client,
         OnChannelClosed
  PROVE  FilterInv'
<1>1. Remaining /\ channel \notin {"none", "made"}
  BY TaskTaken DEF OnChannelClosed
<1>2. CASE channel = "deleted"
  BY <1>1, <1>2, ChannelKeeps DEF OnChannelClosed
<1>3. CASE channel # "deleted"
  <2>1. /\ told' = [f \in Filters |-> IF f \in ToSet(filters)
                                      THEN told[f] \o <<"closing", "removed">> ELSE told[f]]
        /\ filter_channel' = [f \in Filters |-> filter_channel[f] /\ f \notin ToSet(filters)]
        /\ filters' = <<>> /\ channel' = "deleted" /\ input' = <<>>
        /\ told \in [Filters -> Seq(Notification)] /\ filter_channel \in [Filters -> BOOLEAN]
    BY <1>1, <1>3 DEF TypeOK, OnChannelClosed, Tell, ForgetChannel, Shut
  <2>2. \A f \in Filters \ ToSet(filters) :
          told'[f] = told[f] /\ filter_channel'[f] = filter_channel[f]
    BY <2>1
  <2>3. \A f \in Filters \cap ToSet(filters) : ~filter_channel'[f]
    BY <2>1
  <2>4. filters' = <<>> /\ DOMAIN filters' = {} /\ ToSet(filters') = {} /\ DOMAIN input' = {}
    BY <2>1, ToldNothing
  <2>5. Opening' /\ AddedOnce'
    <3>1. \A f \in Filters : Unknown(f) => Unknown(f)'
      BY <2>2, <2>4 DEF Unknown
    <3> QED
      BY <1>1, <2>1, <2>4, <3>1, RemainingKeeps DEF FilterInv, AddedOnce
  <2>6. FilterLifeCycle'
    <3>1. \A f \in Filters \ ToSet(filters) : Life(told'[f])
      BY <2>2, LifeForm DEF FilterInv
    <3>2. ASSUME NEW f \in Filters \cap ToSet(filters)
          PROVE  Life(told'[f])
      <4>1. /\ told[f] \in Seq(Notification) /\ Life(told[f])
            /\ "removed" \notin ToSet(told[f]) /\ "closing" \notin ToSet(told[f])
        BY <2>1, LifeForm DEF FilterInv, ListedFilters
      <4>2. Life(told[f] \o <<"closing", "removed">>)
        BY <4>1, LifeEnds
      <4> QED
        BY <2>1, <4>2
    <3> QED
      BY <3>1, <3>2, LifeFormPrimed
  <2>7. ListedFilters'
    BY <2>4 DEF ListedFilters
  <2>8. \A f \in Filters : filter_channel'[f] => Removed(f)'
    BY <2>2, <2>3 DEF FilterInv, ChannelIsKnown, Removed
  <2>9. ChannelIsKnown' /\ DeletedChannelIsForgotten'
    BY <2>8 DEF ChannelIsKnown, DeletedChannelIsForgotten
  <2> QED
    BY <2>5, <2>6, <2>7, <2>9 DEF FilterInv
<1> QED
  BY <1>2, <1>3

\* Messages are sent, and the channel may fail.
LEMMA OnSendMessageKeeps ==
  ASSUME TypeOK, FilterInv, ipc_loop # <<>>, ipc_loop' = Tail(ipc_loop), UNCHANGED client,
         OnSendMessage
  PROVE  FilterInv'
<1>1. Remaining /\ channel \notin {"none", "made"} /\ UNCHANGED filters
  BY TaskTaken DEF OnSendMessage
<1>2. CASE Refuse /\ OnChannelError
  BY <1>1, <1>2, ErrorKeeps DEF Refuse
<1>3. CASE UNCHANGED <<channel, input, told, filter_channel>>
  BY <1>1, <1>3, ChannelKeeps
<1> QED
  BY <1>2, <1>3 DEF OnSendMessage, Accept, channelVars

LEMMA SendOnIOThreadKeeps ==
  ASSUME TypeOK, FilterInv, ipc_loop # <<>>, ipc_loop' = Tail(ipc_loop), UNCHANGED client,
         SendOnIOThread
  PROVE  FilterInv'
<1>1. /\ Remaining /\ channel \notin {"none", "made"}
      /\ UNCHANGED <<filters, told, filter_channel>>
  BY TaskTaken DEF SendOnIOThread, filterVars
<1>2. \/ UNCHANGED <<channel, input>>
      \/ channel' = "closed" /\ input' = <<>>
  BY DEF SendOnIOThread, Accept, Refuse, Shut, channelVars
<1> QED
  BY <1>1, <1>2, ChannelKeeps

LEMMA ReadErrorKeeps ==
  ASSUME TypeOK, FilterInv, ReadError
  PROVE  FilterInv'
BY OpenRemains, ErrorKeeps DEF ReadError

LEMMA UnblockKeeps ==
  ASSUME TypeOK, FilterInv, Unblock
  PROVE  FilterInv'
<1>1. Remaining /\ channel = "open" /\ UNCHANGED <<client, filters>>
  BY OpenRemains DEF Unblock
<1> QED
  BY <1>1, ErrorKeeps, ChannelKeeps DEF Unblock

\* The task that adds a filter finds it unknown.
LEMMA OnAddFilterKeeps ==
  ASSUME TypeOK, FiltersAreKnown, FilterInv, ipc_loop # <<>>, ipc_loop' = Tail(ipc_loop),
         UNCHANGED client, OnAddFilter
  PROVE  FilterInv'
<1> DEFINE g == NextTask.filter
<1>1. /\ Remaining /\ channel \notin {"none", "made"} /\ g \in Filters
      /\ client[g] # "new" /\ Unknown(g) /\ \A i \in DOMAIN ipc_loop' : ~IsAdd(ipc_loop'[i], g)
  <2>1. /\ Remaining /\ channel \notin {"none", "made"}
        /\ \A f \in Filters : IsAdd(NextTask, f) =>
             /\ client[f] # "new" /\ Unknown(f)
             /\ \A i \in DOMAIN ipc_loop' : ~IsAdd(ipc_loop'[i], f)
    BY TaskTaken DEF OnAddFilter
  <2>2. g \in Filters
    <3>1. NextTask = ipc_loop[1] /\ 1 \in DOMAIN ipc_loop
      BY Taken DEF TypeOK
    <3> QED
      BY <3>1 DEF FiltersAreKnown, OnAddFilter
  <2>3. IsAdd(NextTask, g)
    BY DEF IsAdd, OnAddFilter
  <2> QED
    BY <2>1, <2>2, <2>3
<1>2. /\ filters \in Seq(Filters) /\ filters' = Append(filters, g)
      /\ UNCHANGED <<channel, input>>
      /\ told \in [Filters -> Seq(Notification)] /\ filter_channel \in [Filters -> BOOLEAN]
  BY DEF OnAddFilter, TypeOK, channelVars
<1>3. \/ /\ channel = "deleted" /\ UNCHANGED <<told, filter_channel>>
      \/ /\ channel # "deleted"
         /\ told' = [f \in Filters |-> IF f \in {g} THEN told[f] \o <<"added">> ELSE told[f]]
         /\ filter_channel' = [f \in Filters |-> filter_channel[f] \/ f \in {g}]
  BY <1>1 DEF OnAddFilter, Tell, FilterAdded
<1> HIDE DEF g
<1>4. /\ Len(filters) \in Nat /\ DOMAIN filters = 1 .. Len(filters)
      /\ DOMAIN filters' = 1 .. Len(filters) + 1
      /\ \A i \in 1 .. Len(filters) : filters'[i] = filters[i]
      /\ filters'[Len(filters) + 1] = g
  <2>1. filters' \in Seq(Filters) /\ Len(filters') = Len(filters) + 1
    BY <1>1, <1>2, AppendProperties
  <2> QED
    BY <1>1, <1>2, <2>1, AppendProperties, LenProperties
<1>5. ToSet(filters') = ToSet(filters) \cup {g} /\ g \notin ToSet(filters)
  BY <1>1, <1>4 DEF ToSet, Unknown
<1>6. \A i, j \in DOMAIN filters' : filters'[i] = filters'[j] => i = j
  <2>1. \A i, j \in 1 .. Len(filters) : filters[i] = filters[j] => i = j
    BY <1>4 DEF FilterInv, AddedOnce
  <2>2. \A i \in 1 .. Len(filters) : filters[i] # g
    BY <1>4, <1>5 DEF ToSet
  <2> QED
    BY <1>4, <2>1, <2>2
<1>7. \A f \in Filters : f # g => told'[f] = told[f] /\ filter_channel'[f] = filter_channel[f]
  BY <1>2, <1>3
<1>8. /\ Life(told'[g])
      /\ "removed" \notin ToSet(told'[g]) /\ "closing" \notin ToSet(told'[g])
      /\ "connected" \notin ToSet(told'[g])
      /\ channel # "deleted" => told'[g] # <<>> /\ told'[g][1] = "added"
      /\ channel = "deleted" => ~filter_channel'[g]
  <2>1. told[g] = <<>> /\ ~filter_channel[g]
    BY <1>1 DEF Unknown
  <2>2. CASE channel = "deleted"
    BY <1>3, <2>1, <2>2, ToldNothing
  <2>3. CASE channel # "deleted"
    <3> DEFINE s == told[g]
    <3>1. /\ s \in Seq(Notification) /\ "added" \in Notification /\ Len(s) = 0
          /\ ToSet(s) = {} /\ Life(s)
      BY <2>1, ToldNothing DEF Notification
    <3>2. Life(s \o <<"added">>)
      BY <2>1, <3>1, LifeGoesOn
    <3>3. told'[g] = s \o <<"added">>
      BY <1>1, <1>3, <2>3
    <3> HIDE DEF s
    <3>4. /\ s \o <<"added">> \in Seq(Notification) /\ Len(s \o <<"added">>) = 1
          /\ (s \o <<"added">>)[1] = "added"
      BY <3>1, OneMore
    <3>5. ToSet(s \o <<"added">>) = ToSet(s) \cup {"added"}
      BY <3>1, OneMore
    <3>6. s \o <<"added">> # <<>>
      BY <3>4
    <3> QED
      BY <2>3, <3>1, <3>2, <3>3, <3>4, <3>5, <3>6
  <2> QED
    BY <2>2, <2>3
<1>9. Opening' /\ AddedOnce'
  <2>1. \A f \in Filters : f # g => (Unknown(f) => Unknown(f)')
    BY <1>5, <1>7 DEF Unknown
  <2> QED
    BY <1>1, <1>2, <1>6, <2>1, RemainingKeeps DEF FilterInv, AddedOnce
<1>10. FilterLifeCycle'
  <2>1. \A f \in Filters : f # g => Life(told'[f])
    BY <1>7, LifeForm DEF FilterInv
  <2> QED
    BY <1>8, <2>1, LifeFormPrimed
<1>11. ListedFilters'
  <2>1. ToSet(filters) \subseteq Filters
    BY <1>2, LenProperties DEF ToSet
  <2>2. ASSUME NEW f \in ToSet(filters'), f # g
        PROVE  /\ "removed" \notin ToSet(told'[f]) /\ "closing" \notin ToSet(told'[f])
               /\ channel' = "open" => told'[f] # <<>> /\ told'[f][1] = "added"
    <3>1. f \in ToSet(filters) /\ told'[f] = told[f] /\ channel' = channel
      BY <1>2, <1>5, <1>7, <2>1, <2>2
    <3> QED
      BY <3>1 DEF FilterInv, ListedFilters
  <2>3. \A i \in DOMAIN input' : input'[i].kind = "hello" =>
          i = 1 /\ \A f \in Filters : f # g => "connected" \notin ToSet(told'[f])
    BY <1>2, <1>7 DEF FilterInv, ListedFilters
  <2> QED
    BY <1>2, <1>8, <2>2, <2>3 DEF ListedFilters
<1>12. \A f \in Filters : f # g => (Removed(f)' <=> Removed(f))
  BY <1>7 DEF Removed
<1>13. ChannelIsKnown'
  BY <1>5, <1>7, <1>12 DEF FilterInv, ChannelIsKnown
<1>14. DeletedChannelIsForgotten'
  BY <1>2, <1>7, <1>8, <1>12 DEF FilterInv, DeletedChannelIsForgotten
<1> QED
  BY <1>9, <1>10, <1>11, <1>13, <1>14 DEF FilterInv

\* A filter that is in the list once is not, once it was removed.
LEMMA RemovedOnce ==
  ASSUME NEW s \in Seq(Filters), \A i, j \in DOMAIN s : s[i] = s[j] => i = j,
         NEW g \in ToSet(s)
  PROVE  /\ RemoveFirst(s, g) \in Seq(Filters)
         /\ ToSet(RemoveFirst(s, g)) = ToSet(s) \ {g}
         /\ \A i, j \in DOMAIN RemoveFirst(s, g) :
              RemoveFirst(s, g)[i] = RemoveFirst(s, g)[j] => i = j
<1>1. /\ Len(s) \in Nat /\ DOMAIN s = 1 .. Len(s)
      /\ \A i \in 1 .. Len(s) : s[i] \in Filters
  BY LenProperties
<1>2. PICK k \in 1 .. Len(s) : s[k] = g
  BY <1>1 DEF ToSet
<1>3. {i \in 1 .. Len(s) : s[i] = g} = {k}
  BY <1>1, <1>2
<1>4. SelectInSeq(s, LAMBDA v : v = g) = k
  <2>1. Min({k}) = k
    BY <1>2 DEF Min
  <2> QED
    BY <1>3, <2>1 DEF SelectInSeq
<1> DEFINE a == SubSeq(s, 1, k - 1)
           b == SubSeq(s, k + 1, Len(s))
           t == a \o b
<1>5. RemoveFirst(s, g) = t
  BY <1>2, <1>4 DEF RemoveFirst, RemoveAt
<1>6. a \in Seq(Filters) /\ Len(a) = k - 1 /\ \A i \in 1 .. k - 1 : a[i] = s[i]
  <2>1. \A i \in 1 .. k - 1 : s[i] \in Filters
    BY <1>1
  <2>2. /\ a \in Seq(Filters) /\ Len(a) = IF 1 <= k - 1 THEN (k - 1) - 1 + 1 ELSE 0
        /\ \A i \in 1 .. (k - 1) - 1 + 1 : a[i] = s[1 + i - 1]
    BY <1>1, <2>1, SubSeqProperties
  <2> HIDE DEF a
  <2> QED
    BY <1>1, <2>2
<1>7. /\ b \in Seq(Filters) /\ Len(b) = Len(s) - k
      /\ \A i \in 1 .. Len(s) - k : b[i] = s[k + i]
  <2>1. \A i \in k + 1 .. Len(s) : s[i] \in Filters
    BY <1>1
  <2>2. /\ b \in Seq(Filters) /\ Len(b) = IF k + 1 <= Len(s) THEN Len(s) - (k + 1) + 1 ELSE 0
        /\ \A i \in 1 .. Len(s) - (k + 1) + 1 : b[i] = s[(k + 1) + i - 1]
    BY <1>1, <2>1, SubSeqProperties
  <2> HIDE DEF b
  <2>3. Len(b) = Len(s) - k
    <3>1. CASE k + 1 <= Len(s)
      <4>1. Len(b) = Len(s) - (k + 1) + 1
        BY <2>2, <3>1
      <4> QED
        BY <1>1, <4>1
    <3>2. CASE ~(k + 1 <= Len(s))
      <4>1. Len(b) = 0
        BY <2>2, <3>2
      <4> QED
        <5>1. Len(s) \in Nat /\ k \in Nat /\ k <= Len(s)
          BY <1>1
        <5>2. Len(s) - k = 0
          BY <3>2, <5>1
        <5> QED
          BY <4>1, <5>2
    <3> QED
      BY <3>1, <3>2
  <2>4. ASSUME NEW i \in 1 .. Len(s) - k
        PROVE  b[i] = s[k + i]
    <3>1. i \in 1 .. Len(s) - (k + 1) + 1 /\ (k + 1) + i - 1 = k + i
      BY <1>1
    <3> QED
      BY <2>2, <3>1
  <2> QED
    BY <2>2, <2>3, <2>4
<1> HIDE DEF a, b
<1>8. /\ t \in Seq(Filters) /\ Len(t) = Len(s) - 1
      /\ \A i \in 1 .. Len(s) - 1 : t[i] = IF i < k THEN s[i] ELSE s[i + 1]
  <2>1. /\ t \in Seq(Filters) /\ Len(t) = Len(a) + Len(b)
        /\ \A i \in 1 .. Len(a) + Len(b) : t[i] = IF i <= Len(a) THEN a[i] ELSE b[i - Len(a)]
    BY <1>6, <1>7, ConcatProperties
  <2> HIDE DEF t
  <2>2. ASSUME NEW i \in 1 .. Len(s) - 1
        PROVE  t[i] = IF i < k THEN s[i] ELSE s[i + 1]
    <3>0. /\ i \in 1 .. Len(a) + Len(b) /\ i \in Nat /\ k \in Nat
          /\ i <= Len(a) <=> i < k
      BY <1>1, <1>6, <1>7
    <3>1. CASE i < k
      <4>1. t[i] = a[i] /\ i \in 1 .. k - 1
        BY <2>1, <3>0, <3>1
      <4> QED
        BY <1>6, <3>1, <4>1
    <3>2. CASE ~(i < k)
      <4>1. i - Len(a) \in 1 .. Len(s) - k /\ k + (i - Len(a)) = i + 1
        BY <1>1, <1>6, <3>0, <3>2
      <4>2. t[i] = b[i - Len(a)]
        BY <2>1, <3>0, <3>2
      <4> QED
        BY <1>7, <3>2, <4>1, <4>2
    <3> QED
      BY <3>1, <3>2
  <2> QED
    BY <1>1, <1>6, <1>7, <2>1, <2>2
<1> HIDE DEF t
<1>9. DOMAIN t = 1 .. Len(s) - 1
  BY <1>8, LenProperties
<1>10. ASSUME NEW i \in 1 .. Len(s) - 1
       PROVE  \E n \in 1 .. Len(s) : n # k /\ t[i] = s[n] /\ n = IF i < k THEN i ELSE i + 1
  <2>1. CASE i < k
    BY <1>1, <1>8, <2>1
  <2>2. CASE ~(i < k)
    <3>1. i + 1 \in 1 .. Len(s) /\ i + 1 # k /\ t[i] = s[i + 1]
      BY <1>1, <1>8, <2>2
    <3> QED
      BY <2>2, <3>1
  <2> QED
    BY <2>1, <2>2
<1>11. ASSUME NEW n \in 1 .. Len(s), n # k
       PROVE  \E i \in 1 .. Len(s) - 1 : t[i] = s[n]
  <2>1. CASE n < k
    BY <1>1, <1>8, <2>1
  <2>2. CASE n > k
    <3>1. /\ n - 1 \in 1 .. Len(s) - 1 /\ ~(n - 1 < k) /\ (n - 1) + 1 = n
      BY <1>1, <2>2
    <3>2. t[n - 1] = s[n]
      BY <1>8, <3>1
    <3> QED
      BY <3>1, <3>2
  <2> QED
    BY <1>1, <1>11, <2>1, <2>2
<1>12. ToSet(t) = ToSet(s) \ {g}
  <2>1. ASSUME NEW i \in 1 .. Len(s) - 1
        PROVE  t[i] \in ToSet(s) \ {g}
    BY <1>1, <1>2, <1>10 DEF ToSet
  <2>2. ASSUME NEW f \in ToSet(s), f # g
        PROVE  f \in ToSet(t)
    <3>1. PICK n \in 1 .. Len(s) : s[n] = f
      BY <1>1 DEF ToSet
    <3>2. PICK i \in 1 .. Len(s) - 1 : t[i] = f
      BY <1>2, <1>11, <2>2, <3>1
    <3> QED
      BY <1>9, <3>2 DEF ToSet
  <2>3. \A f \in ToSet(t) : f \in ToSet(s) \ {g}
    BY <1>9, <2>1 DEF ToSet
  <2> QED
    BY <2>2, <2>3
<1>13. ASSUME NEW i \in DOMAIN t, NEW j \in DOMAIN t, t[i] = t[j]
       PROVE  i = j
  <2>1. PICK n \in 1 .. Len(s) : t[i] = s[n] /\ n = IF i < k THEN i ELSE i + 1
    BY <1>9, <1>10
  <2>2. PICK m \in 1 .. Len(s) : t[j] = s[m] /\ m = IF j < k THEN j ELSE j + 1
    BY <1>9, <1>10
  <2>3. n = m
    BY <1>1, <1>13, <2>1, <2>2
  <2> QED
    BY <1>1, <1>9, <2>1, <2>2, <2>3
<1> QED
  BY <1>5, <1>8, <1>12, <1>13

\* A filter in the list is told that it is removed, and is in the list no more.
LEMMA OnRemoveFilterKeeps ==
  ASSUME TypeOK, FilterInv, ipc_loop # <<>>, ipc_loop' = Tail(ipc_loop),
         UNCHANGED client, OnRemoveFilter
  PROVE  FilterInv'
<1> DEFINE g == NextTask.filter
<1>1. Remaining /\ channel \notin {"none", "made"}
  BY TaskTaken DEF OnRemoveFilter
<1>2. /\ filters \in Seq(Filters) /\ filters' = RemoveFirst(filters, g)
      /\ UNCHANGED <<channel, input, filter_channel>>
      /\ told \in [Filters -> Seq(Notification)]
      /\ told' = [f \in Filters |-> IF f \in ToSet(filters) \cap {g}
                                    THEN told[f] \o <<"removed">> ELSE told[f]]
  BY DEF OnRemoveFilter, TypeOK, channelVars, Tell
<1> HIDE DEF g
<1>3. CASE g \notin ToSet(filters)
  <2>1. /\ Len(filters) \in Nat /\ DOMAIN filters = 1 .. Len(filters)
    BY <1>2, LenProperties
  <2>2. ~ \E i \in 1 .. Len(filters) : filters[i] = g
    BY <1>3, <2>1 DEF ToSet
  <2>3. UNCHANGED filters
    BY <1>2, <2>2 DEF RemoveFirst
  <2>4. told' = [f \in Filters |-> told[f]]
    BY <1>2, <1>3
  <2>5. UNCHANGED told
    BY <1>2, <2>4
  <2> QED
    BY <1>1, <1>2, <2>3, <2>5, ChannelKeeps
<1>4. CASE g \in ToSet(filters)
  <2>1. \A i, j \in DOMAIN filters : filters[i] = filters[j] => i = j
    BY DEF FilterInv, AddedOnce
  <2>2. /\ ToSet(filters') = ToSet(filters) \ {g}
        /\ \A i, j \in DOMAIN filters' : filters'[i] = filters'[j] => i = j
    BY <1>2, <1>4, <2>1, RemovedOnce
  <2>3. ToSet(filters) \subseteq Filters
    BY <1>2, LenProperties DEF ToSet
  <2>4. \A f \in Filters : f # g => told'[f] = told[f]
    BY <1>2
  <2>5. /\ Life(told'[g])
        /\ "removed" \in ToSet(told'[g]) /\ "closing" \notin ToSet(told'[g])
        /\ "connected" \notin ToSet(told[g]) => "connected" \notin ToSet(told'[g])
    <3> DEFINE s == told[g]
    <3>1. /\ s \in Seq(Notification) /\ "removed" \in Notification /\ Life(s)
          /\ "removed" \notin ToSet(s) /\ "closing" \notin ToSet(s)
      BY <1>2, <1>4, <2>3, LifeForm DEF FilterInv, ListedFilters, Notification
    <3>2. told'[g] = s \o <<"removed">>
      BY <1>2, <1>4, <2>3
    <3> HIDE DEF s
    <3>3. Life(s \o <<"removed">>)
      BY <3>1, LifeGoesOn
    <3>4. ToSet(s \o <<"removed">>) = ToSet(s) \cup {"removed"}
      BY <3>1, OneMore
    <3>5. ToSet(told'[g]) = ToSet(told[g]) \cup {"removed"}
      BY <3>2, <3>4 DEF s
    <3> QED
      BY <3>1, <3>2, <3>3, <3>5 DEF s
  <2>6. Opening' /\ AddedOnce'
    <3>1. \A f \in Filters : Unknown(f) => Unknown(f)'
      BY <1>2, <1>4, <2>2, <2>4 DEF Unknown
    <3> QED
      BY <1>1, <1>2, <2>2, <3>1, RemainingKeeps DEF FilterInv, AddedOnce
  <2>7. FilterLifeCycle'
    <3>1. \A f \in Filters : f # g => Life(told'[f])
      BY <2>4, LifeForm DEF FilterInv
    <3> QED
      BY <2>5, <3>1, LifeFormPrimed
  <2>8. ListedFilters'
    <3>1. \A i \in DOMAIN input' : input'[i].kind = "hello" =>
            i = 1 /\ \A f \in Filters : "connected" \notin ToSet(told'[f])
      BY <1>2, <2>4, <2>5 DEF FilterInv, ListedFilters
    <3>2. ASSUME NEW f \in ToSet(filters')
          PROVE  f \in ToSet(filters) /\ told'[f] = told[f]
      BY <2>2, <2>3, <2>4
    <3> QED
      BY <1>2, <3>1, <3>2 DEF FilterInv, ListedFilters
  <2>9. \A f \in Filters : Removed(f) \/ f = g => Removed(f)'
    BY <2>4, <2>5 DEF Removed
  <2>10. ChannelIsKnown' /\ DeletedChannelIsForgotten'
    BY <1>2, <2>2, <2>9
       DEF FilterInv, ChannelIsKnown, DeletedChannelIsForgotten
  <2> QED
    BY <2>6, <2>7, <2>8, <2>10 DEF FilterInv
<1> QED
  BY <1>3, <1>4

\* The peer's first message tells the filters that it is connected.
LEMMA ReceiveKeeps ==
  ASSUME TypeOK, FilterInv, Receive
  PROVE  FilterInv'
<1>1. /\ Remaining /\ channel = "open" /\ input \in Seq(Message) /\ input # <<>>
      /\ UNCHANGED <<client, filters, filter_channel, channel>> /\ input' = Tail(input)
      /\ filters \in Seq(Filters) /\ told \in [Filters -> Seq(Notification)]
  BY OpenRemains DEF Receive, TypeOK, channelVars
<1>2. /\ Len(input) \in Nat \ {0} /\ DOMAIN input = 1 .. Len(input) /\ Head(input) = input[1]
      /\ DOMAIN input' = 1 .. Len(input) - 1
      /\ \A i \in 1 .. Len(input) - 1 : input'[i] = input[i + 1]
  <2>1. Len(input) \in Nat \ {0}
    BY <1>1, EmptySeq
  <2> QED
    BY <1>1, <2>1, HeadTailProperties, LenProperties
<1>3. \A i \in DOMAIN input' : input'[i].kind # "hello"
  <2>1. ASSUME NEW i \in DOMAIN input'
        PROVE  i + 1 \in DOMAIN input /\ i + 1 # 1 /\ input'[i] = input[i + 1]
    BY <1>2
  <2> QED
    BY <2>1 DEF FilterInv, ListedFilters
<1>4. \A i, j \in DOMAIN filters' : filters'[i] = filters'[j] => i = j
  BY <1>1 DEF FilterInv, AddedOnce
<1>5. ToSet(filters) \subseteq Filters /\ ToSet(filters') = ToSet(filters)
  BY <1>1, LenProperties DEF ToSet
<1>6. CASE UNCHANGED told
  <2>1. Opening' /\ AddedOnce'
    BY <1>1, <1>4, <1>6, RemainingKeeps DEF FilterInv, AddedOnce, Unknown
  <2>2. (ListedFilters /\ ChannelIsKnown /\ FilterLifeCycle /\ DeletedChannelIsForgotten)'
    BY <1>1, <1>3, <1>6 DEF FilterInv, ListedFilters, ChannelIsKnown, Removed,
                            FilterLifeCycle, DeletedChannelIsForgotten
  <2> QED
    BY <2>1, <2>2 DEF FilterInv
<1>7. CASE Head(input).kind = "hello" /\ Tell(ToSet(filters), <<"connected">>)
  <2>1. \A f \in Filters : "connected" \notin ToSet(told[f])
    BY <1>2, <1>7 DEF FilterInv, ListedFilters
  <2>2. told' = [f \in Filters |-> IF f \in ToSet(filters) THEN told[f] \o <<"connected">>
                                                           ELSE told[f]]
    BY <1>7 DEF Tell
  <2>3. \A f \in Filters \ ToSet(filters) : told'[f] = told[f]
    BY <2>2
  <2>4. ASSUME NEW f \in ToSet(filters)
        PROVE  /\ Life(told'[f]) /\ told'[f] # <<>> /\ told'[f][1] = "added"
               /\ "removed" \notin ToSet(told'[f]) /\ "closing" \notin ToSet(told'[f])
    <3> DEFINE s == told[f]
    <3>1. /\ s \in Seq(Notification) /\ "connected" \in Notification /\ Life(s)
          /\ "removed" \notin ToSet(s) /\ "closing" \notin ToSet(s)
          /\ "connected" \notin ToSet(s) /\ s # <<>> /\ s[1] = "added"
      BY <1>1, <1>5, <2>1, LifeForm DEF FilterInv, ListedFilters, Notification
    <3>2. told'[f] = s \o <<"connected">>
      BY <1>5, <2>2
    <3> HIDE DEF s
    <3>3. Life(s \o <<"connected">>)
      BY <3>1, LifeGoesOn
    <3>4. ToSet(s \o <<"connected">>) = ToSet(s) \cup {"connected"}
      BY <3>1, OneMore
    <3>5. (s \o <<"connected">>)[1] = "added" /\ s \o <<"connected">> # <<>>
      <4>1. Len(s) \in Nat \ {0}
        BY <3>1, EmptySeq
      <4>2. /\ Len(s \o <<"connected">>) = Len(s) + 1
            /\ \A i \in 1 .. Len(s) : (s \o <<"connected">>)[i] = s[i]
        BY <3>1, OneMore
      <4> QED
        BY <3>1, <4>1, <4>2
    <3> QED
      BY <3>1, <3>2, <3>3, <3>4, <3>5
  <2>5. Opening' /\ AddedOnce'
    <3>1. \A f \in Filters : Unknown(f) => Unknown(f)'
      BY <1>1, <1>5, <2>3 DEF Unknown
    <3> QED
      BY <1>1, <1>4, <3>1, RemainingKeeps DEF FilterInv, AddedOnce
  <2>6. FilterLifeCycle'
    <3>1. \A f \in Filters \ ToSet(filters) : Life(told'[f])
      BY <2>3, LifeForm DEF FilterInv
    <3> QED
      BY <2>4, <3>1, LifeFormPrimed
  <2>7. ListedFilters'
    BY <1>3, <1>5, <2>4 DEF ListedFilters
  <2>8. \A f \in Filters \ ToSet(filters) : Removed(f)' <=> Removed(f)
    BY <2>3 DEF Removed
  <2>9. ChannelIsKnown' /\ DeletedChannelIsForgotten'
    BY <1>1, <1>5, <2>8 DEF FilterInv, ChannelIsKnown, DeletedChannelIsForgotten
  <2> QED
    BY <2>5, <2>6, <2>7, <2>9 DEF FilterInv
<1> QED
  BY <1>6, <1>7 DEF Receive

\* Every step keeps what filters are told in order.
LEMMA FilterInvNext ==
  ASSUME TypeOK, FiltersAreKnown, FilterInv, [Next]_vars
  PROVE  FilterInv'
<1> USE DEF clientVars, filterVars, workerVars, peerVars, channelVars
<1>1. ASSUME NEW f \in Filters, AddFilter(f) \/ RemoveFilter(f)
      PROVE  FilterInv'
  BY <1>1, AddFilterKeeps, RemoveFilterKeeps
<1>2. CASE Send \/ Close
  <2>1. /\ Task("send") \in IpcTask /\ Task("send").kind = "send"
        /\ Task("closed") \in IpcTask /\ Task("closed").kind = "closed"
    BY ConstantsOK DEF Task, IpcTask, Ids, NoId
  <2> QED
    BY <1>2, <2>1, PostKeeps DEF Send, Close, toldVars
<1>3. CASE Dispatch \/ PeerDies \/ Shutdown
  BY <1>3, QuietKeeps DEF Dispatch, PeerDies, Shutdown, toldVars
<1>4. CASE RunIpcTask
  <2>1. ipc_loop # <<>> /\ ipc_loop' = Tail(ipc_loop) /\ UNCHANGED client
    BY <1>4 DEF RunIpcTask
  <2> QED
    BY <1>4, <2>1, CreateChannelKeeps, OnChannelOpenedKeeps, OnChannelClosedKeeps,
       OnSendMessageKeeps, OnAddFilterKeeps, OnRemoveFilterKeeps, SendOnIOThreadKeeps
       DEF RunIpcTask
<1>5. CASE Receive \/ ReadError \/ Unblock
  BY <1>5, ReceiveKeeps, ReadErrorKeeps, UnblockKeeps
<1>6. ASSUME NEW w \in Workers, WorkerStep(w)
      PROVE  FilterInv'
  <2>1. CASE InsertPending(w) \/ WaitReturns(w) \/ ErasePending(w)
    BY <2>1, QuietKeeps DEF InsertPending, WaitReturns, ErasePending, toldVars
  <2>2. CASE PostSend(w)
    <3> DEFINE t == FilterTask("filter send", using[w], id[w])
    <3>1. t \in IpcTask /\ t.kind = "filter send"
      BY DEF FilterTask, IpcTask, TypeOK
    <3>2. PostIpc(t)
      BY <2>2 DEF PostSend
    <3> HIDE DEF t
    <3> QED
      BY <2>2, <3>1, <3>2, PostKeeps DEF PostSend, toldVars
  <2> QED
    BY <1>6, <2>1, <2>2 DEF WorkerStep
<1>7. ASSUME NEW w \in Workers, NEW f \in Filters, NEW sync \in BOOLEAN, BeginSend(w, f, sync)
      PROVE  FilterInv'
  <2> DEFINE t == FilterTask("filter send", f, NoId)
  <2>1. t \in IpcTask /\ t.kind = "filter send"
    BY ConstantsOK DEF FilterTask, IpcTask, Ids, NoId
  <2>2. PostIpc(t) \/ UNCHANGED ipc_loop
    BY <1>7 DEF BeginSend
  <2> HIDE DEF t
  <2> QED
    BY <1>7, <2>1, <2>2, PostKeeps, QuietKeeps DEF BeginSend, toldVars
<1>8. CASE PeerSends
  <2>1. Plain("message") \in Message /\ Plain("message").kind # "hello"
    BY ConstantsOK DEF Plain, Message, Ids, NoId
  <2> QED
    BY <1>8, <2>1, InputKeeps DEF PeerSends, toldVars
<1>9. ASSUME NEW i \in output, NEW ok \in BOOLEAN, PeerAnswers(i, ok)
      PROVE  FilterInv'
  <2>1. Reply(i, ok) \in Message /\ Reply(i, ok).kind # "hello"
    BY DEF Reply, Message, TypeOK
  <2>2. input' = Append(input, Reply(i, ok)) \/ UNCHANGED input
    BY <1>9 DEF PeerAnswers
  <2> QED
    BY <1>9, <2>1, <2>2, InputKeeps, QuietKeeps DEF PeerAnswers, toldVars
<1>10. CASE UNCHANGED vars
  BY <1>10, QuietKeeps DEF vars, toldVars
<1> QED
  BY <1>1, <1>2, <1>3, <1>4, <1>5, <1>6, <1>7, <1>8, <1>9, <1>10, ConstantsOK
     DEF Next, IpcStep, PeerAnswer

----------------------------------------------------------------------------
(* The workers.                                                            *)

\* The variables WorkerInv speaks of.
sendVars == <<pending, using, at, id, result, input, answered>>

LEMMA IdleKeeps ==
  ASSUME WorkerInv, UNCHANGED sendVars
  PROVE  WorkerInv'
BY DEF WorkerInv, sendVars, PendingEntryIsOnStack, RepliesAreAnswers, ResultWasAnswered

\* The channel loses what it has not read.
LEMMA LosingKeeps ==
  ASSUME WorkerInv, UNCHANGED <<pending, using, at, id, result, answered>>, input' = <<>>
  PROVE  WorkerInv'
<1>1. DOMAIN input' = {}
  BY ToldNothing
<1> QED
  BY <1>1 DEF WorkerInv, PendingEntryIsOnStack, RepliesAreAnswers, ResultWasAnswered

\* A Send succeeds with a reply that was an answer of the peer.
LEMMA ReceiveKeepsWorkers ==
  ASSUME TypeOK, WorkerInv, Receive
  PROVE  WorkerInv'
<1>1. /\ input \in Seq(Message) /\ input # <<>> /\ input' = Tail(input)
      /\ UNCHANGED <<pending, using, at, id, answered>>
  BY DEF Receive, TypeOK
<1>2. /\ Len(input) \in Nat \ {0} /\ DOMAIN input = 1 .. Len(input) /\ Head(input) = input[1]
      /\ DOMAIN input' = 1 .. Len(input) - 1
      /\ \A i \in 1 .. Len(input) - 1 : input'[i] = input[i + 1]
  <2>1. Len(input) \in Nat \ {0}
    BY <1>1, EmptySeq
  <2> QED
    BY <1>1, <2>1, HeadTailProperties, LenProperties
<1>3. RepliesAreAnswers'
  <2>1. ASSUME NEW i \in DOMAIN input'
        PROVE  i + 1 \in DOMAIN input /\ input'[i] = input[i + 1]
    BY <1>2
  <2> QED
    BY <1>1, <2>1 DEF WorkerInv, RepliesAreAnswers
<1>4. PendingEntryIsOnStack'
  BY <1>1 DEF WorkerInv, PendingEntryIsOnStack
<1>5. ResultWasAnswered'
  <2> DEFINE m == Head(input)
             asking == UNION {Asking(f, m) : f \in ToSet(filters)}
  <2>1. CASE UNCHANGED result
    BY <1>1, <2>1 DEF WorkerInv, ResultWasAnswered
  <2>2. CASE result' = [w \in Workers |-> result[w] \/ (m.ok /\ w \in asking)]
    <3>1. \A w \in asking : m.kind = "reply" /\ id[w] = m.id
      BY DEF Asking
    <3>2. m = input[1] /\ 1 \in DOMAIN input
      BY <1>2
    <3>3. m.kind = "reply" /\ m.ok => m.id \in answered
      BY <3>2 DEF WorkerInv, RepliesAreAnswers
    <3>4. ASSUME NEW w \in Workers, result'[w]
          PROVE  id[w] \in answered
      <4>1. result[w] \/ (m.ok /\ w \in asking)
        BY <2>2, <3>4
      <4> QED
        BY <3>1, <3>3, <4>1 DEF WorkerInv, ResultWasAnswered
    <3> QED
      BY <1>1, <3>4 DEF ResultWasAnswered
  <2> QED
    BY <2>1, <2>2 DEF Receive
<1> QED
  BY <1>3, <1>4, <1>5 DEF WorkerInv

LEMMA WorkerInvNext ==
  ASSUME TypeOK, WorkerInv, [Next]_vars
  PROVE  WorkerInv'
<1> USE DEF clientVars, filterVars, workerVars, peerVars, channelVars
<1>1. ASSUME NEW f \in Filters, AddFilter(f) \/ RemoveFilter(f)
      PROVE  WorkerInv'
  BY <1>1, IdleKeeps DEF AddFilter, RemoveFilter, sendVars
<1>2. CASE Send \/ Close \/ Dispatch \/ PeerDies \/ Shutdown
  BY <1>2, IdleKeeps DEF Send, Close, Dispatch, PeerDies, Shutdown, sendVars
<1>3. CASE RunIpcTask
  <2>1. UNCHANGED <<pending, using, at, id, result, answered>>
    BY <1>3 DEF RunIpcTask
  <2>2. UNCHANGED input \/ input' = <<>>
    BY <1>3 DEF RunIpcTask, CreateChannel, OnChannelOpened, OnChannelClosed, OnSendMessage,
                OnAddFilter, OnRemoveFilter, SendOnIOThread, Accept, Refuse, Shut
  <2> QED
    BY <2>1, <2>2, IdleKeeps, LosingKeeps DEF sendVars
<1>4. CASE Receive
  BY <1>4, ReceiveKeepsWorkers
<1>5. CASE ReadError \/ Unblock
  <2>1. UNCHANGED <<pending, using, at, id, result, answered>>
    BY <1>5 DEF ReadError, Unblock
  <2>2. UNCHANGED input \/ input' = <<>>
    BY <1>5 DEF ReadError, Unblock, Shut
  <2> QED
    BY <2>1, <2>2, IdleKeeps, LosingKeeps DEF sendVars
<1>6. ASSUME NEW w \in Workers, WorkerStep(w)
      PROVE  WorkerInv'
  <2>1. /\ UNCHANGED <<using, id, result, input, answered>>
        /\ at \in [Workers -> {"idle", "insert", "post", "wait", "erase"}]
        /\ pending \in [Filters -> SUBSET Workers]
    BY <1>6 DEF WorkerStep, InsertPending, PostSend, WaitReturns, ErasePending, TypeOK
  <2>2. \/ /\ at[w] = "insert" /\ at' = [at EXCEPT ![w] = "post"]
           /\ pending' = [pending EXCEPT ![using[w]] = @ \cup {w}]
        \/ at' = [at EXCEPT ![w] = "wait"] /\ at[w] = "post" /\ UNCHANGED pending
        \/ at' = [at EXCEPT ![w] = "erase"] /\ at[w] = "wait" /\ UNCHANGED pending
        \/ /\ at' = [at EXCEPT ![w] = "idle"] /\ at[w] = "erase"
           /\ pending' = [pending EXCEPT ![using[w]] = @ \ {w}]
    BY <1>6 DEF WorkerStep, InsertPending, PostSend, WaitReturns, ErasePending
  <2>3. PendingEntryIsOnStack'
    BY <2>1, <2>2 DEF WorkerInv, PendingEntryIsOnStack
  <2>4. RepliesAreAnswers' /\ ResultWasAnswered'
    BY <2>1 DEF WorkerInv, RepliesAreAnswers, ResultWasAnswered
  <2> QED
    BY <2>3, <2>4 DEF WorkerInv
<1>7. ASSUME NEW w \in Workers, NEW f \in Filters, NEW sync \in BOOLEAN, BeginSend(w, f, sync)
      PROVE  WorkerInv'
  <2>1. CASE UNCHANGED <<at, using, id, result>>
    BY <1>7, <2>1, IdleKeeps DEF BeginSend, sendVars
  <2>2. CASE /\ at' = [at EXCEPT ![w] = "insert"]
             /\ using' = [using EXCEPT ![w] = f]
             /\ id' = [id EXCEPT ![w] = next_id]
             /\ result' = [result EXCEPT ![w] = FALSE]
    <3>1. /\ UNCHANGED <<pending, input, answered>> /\ at[w] = "idle"
          /\ \A v \in Workers : v # w => /\ at'[v] = at[v] /\ using'[v] = using[v]
                                         /\ id'[v] = id[v] /\ result'[v] = result[v]
          /\ ~result'[w]
      BY <1>7, <2>2 DEF BeginSend, TypeOK
    <3>2. \A g \in Filters : w \notin pending[g] /\ pending[g] \subseteq Workers
      BY <3>1 DEF WorkerInv, PendingEntryIsOnStack, TypeOK
    <3>3. PendingEntryIsOnStack'
      BY <3>1, <3>2 DEF WorkerInv, PendingEntryIsOnStack
    <3>4. RepliesAreAnswers' /\ ResultWasAnswered'
      BY <3>1 DEF WorkerInv, RepliesAreAnswers, ResultWasAnswered
    <3> QED
      BY <3>3, <3>4 DEF WorkerInv
  <2> QED
    BY <1>7, <2>1, <2>2 DEF BeginSend
<1>8. ASSUME NEW m \in Message, input' = Append(input, m) \/ UNCHANGED input,
             UNCHANGED <<pending, using, at, id, result>>, answered \subseteq answered',
             m.kind = "reply" /\ m.ok => m.id \in answered'
      PROVE  WorkerInv'
  <2>1. \A i \in DOMAIN input' : input'[i] = m \/ (i \in DOMAIN input /\ input'[i] = input[i])
    <3>1. CASE UNCHANGED input
      BY <3>1
    <3>2. CASE input' = Append(input, m)
      <4>1. /\ input \in Seq(Message) /\ Len(input) \in Nat /\ DOMAIN input = 1 .. Len(input)
            /\ DOMAIN input' = 1 .. Len(input) + 1
            /\ \A i \in 1 .. Len(input) : input'[i] = input[i]
            /\ input'[Len(input) + 1] = m
        BY <3>2, AppendProperties, LenProperties DEF TypeOK
      <4> QED
        BY <4>1
    <3> QED
      BY <1>8, <3>1, <3>2
  <2>2. RepliesAreAnswers'
    BY <1>8, <2>1 DEF WorkerInv, RepliesAreAnswers
  <2>3. PendingEntryIsOnStack' /\ ResultWasAnswered'
    BY <1>8 DEF WorkerInv, PendingEntryIsOnStack, ResultWasAnswered
  <2> QED
    BY <2>2, <2>3 DEF WorkerInv
<1>9. CASE PeerSends
  <2>1. Plain("message") \in Message /\ Plain("message").kind # "reply"
    BY ConstantsOK DEF Plain, Message, Ids, NoId
  <2> QED
    BY <1>9, <2>1, <1>8 DEF PeerSends
<1>10. ASSUME NEW i \in output, NEW ok \in BOOLEAN, PeerAnswers(i, ok)
       PROVE  WorkerInv'
  <2>1. Reply(i, ok) \in Message /\ Reply(i, ok).id = i /\ Reply(i, ok).ok = ok
    BY DEF Reply, Message, TypeOK
  <2>2. input' = Append(input, Reply(i, ok)) \/ UNCHANGED input
    BY <1>10 DEF PeerAnswers
  <2>3. answered \subseteq answered' /\ (ok => i \in answered')
    BY <1>10 DEF PeerAnswers
  <2> QED
    BY <1>10, <2>1, <2>2, <2>3, <1>8 DEF PeerAnswers
<1>11. CASE UNCHANGED vars
  BY <1>11, IdleKeeps DEF vars, sendVars
<1> QED
  BY <1>1, <1>2, <1>3, <1>4, <1>5, <1>6, <1>7, <1>9, <1>10, <1>11, ConstantsOK
     DEF Next, IpcStep, PeerAnswer

----------------------------------------------------------------------------
(* Types.                                                                  *)

\* Tell keeps the type of told.
LEMMA TellType ==
  ASSUME TypeOK, NEW fs, NEW ns \in Seq(Notification), Tell(fs, ns)
  PROVE  told' \in [Filters -> Seq(Notification)]
<1>1. \A f \in Filters : told[f] \o ns \in Seq(Notification)
  BY ConcatProperties DEF TypeOK
<1> QED
  BY <1>1 DEF Tell, TypeOK

\* The channel's failure keeps the types.
LEMMA ErrorType ==
  ASSUME TypeOK, OnChannelError
  PROVE  /\ told' \in [Filters -> Seq(Notification)]
         /\ filter_channel' \in [Filters -> BOOLEAN]
         /\ done' \in [Workers -> BOOLEAN]
         /\ listener_loop' \in Seq(ListenerCall)
<1>1. <<"error">> \in Seq(Notification) /\ "error" \in ListenerCall
  BY DEF Notification, ListenerCall
<1>2. told' \in [Filters -> Seq(Notification)]
  BY <1>1, TellType DEF OnChannelError
<1>3. listener_loop' \in Seq(ListenerCall)
  BY <1>1, AppendProperties DEF OnChannelError, TypeOK
<1>4. filter_channel' \in [Filters -> BOOLEAN] /\ done' \in [Workers -> BOOLEAN]
  BY DEF OnChannelError, ForgetChannel, SignalAllEvents, TypeOK
<1> QED
  BY <1>2, <1>3, <1>4

\* A Send of the channel keeps the types.
LEMMA ChannelSendType ==
  ASSUME TypeOK, NEW i \in Ids, Accept(i) \/ Refuse
  PROVE  /\ channel' \in {"none", "made", "open", "closed", "deleted"} /\ blocked' \in BOOLEAN
         /\ output' \subseteq Ids /\ queued' \subseteq Ids /\ input' \in Seq(Message)
<1>1. <<>> \in Seq(Message)
  OBVIOUS
<1>2. CASE Accept(i)
  BY <1>2 DEF Accept, TypeOK
<1>3. CASE Refuse
  BY <1>1, <1>3 DEF Refuse, Shut, TypeOK
<1> QED
  BY <1>2, <1>3

\* The tasks of the IPC thread keep the types.
LEMMA TaskType ==
  ASSUME TypeOK, FiltersAreKnown, FilterInv, RunIpcTask
  PROVE  TypeOK'
<1> USE DEF filterVars, channelVars
<1>1. /\ ipc_loop' \in Seq(IpcTask) /\ NextTask \in IpcTask /\ NextTask = ipc_loop[1]
      /\ 1 \in DOMAIN ipc_loop
  BY Taken DEF RunIpcTask, TypeOK
<1>2. NextTask.kind \in {"add", "remove", "filter send"} => NextTask.filter \in Filters
  BY <1>1 DEF FiltersAreKnown
<1>3. /\ listener' \in BOOLEAN /\ called' \in BOOLEAN
      /\ client' \in [Filters -> {"new", "given", "taken"}]
      /\ posts' \in 0 .. MaxPosts /\ heard' \in Seq(ListenerCall)
      /\ pending' \in [Filters -> SUBSET Workers]
      /\ at' \in [Workers -> {"idle", "insert", "post", "wait", "erase"}]
      /\ using' \in [Workers -> Filters \cup {"none"}]
      /\ id' \in [Workers -> Ids] /\ result' \in [Workers -> BOOLEAN]
      /\ next_id' \in 1 .. MaxSends + 1 /\ alive' \in BOOLEAN /\ answered' \subseteq Ids
      /\ incoming' \in 0 .. MaxIncoming /\ shutdown' \in BOOLEAN
  BY DEF RunIpcTask, TypeOK
<1> DEFINE Rest ==
      /\ listener_loop' \in Seq(ListenerCall)
      /\ channel' \in {"none", "made", "open", "closed", "deleted"} /\ blocked' \in BOOLEAN
      /\ filters' \in Seq(Filters) /\ told' \in [Filters -> Seq(Notification)]
      /\ filter_channel' \in [Filters -> BOOLEAN] /\ io_loop' \in [Filters -> BOOLEAN]
      /\ done' \in [Workers -> BOOLEAN]
      /\ output' \subseteq Ids /\ queued' \subseteq Ids /\ input' \in Seq(Message)
<1> SUFFICES Rest
  BY <1>1, <1>3 DEF TypeOK
<1>4. /\ <<>> \in Seq(Message) /\ <<>> \in Seq(Filters)
      /\ <<"added">> \in Seq(Notification) /\ <<"removed">> \in Seq(Notification)
      /\ <<"closing", "removed">> \in Seq(Notification)
  BY DEF Notification
<1>5. CASE CreateChannel
  BY <1>5 DEF CreateChannel, TypeOK
<1>6. CASE OnChannelOpened
  <2>1. CASE alive
    <3>1. told' \in [Filters -> Seq(Notification)]
      BY <1>4, <1>6, <2>1, TellType DEF OnChannelOpened
    <3> QED
      BY <1>6, <2>1, <3>1 DEF OnChannelOpened, FilterAdded, TypeOK
  <2>2. CASE ~alive
    BY <1>4, <1>6, <2>2, ErrorType DEF OnChannelOpened, Shut, TypeOK
  <2> QED
    BY <2>1, <2>2
<1>7. CASE OnChannelClosed
  <2>1. CASE channel \in {"none", "deleted"}
    BY <1>7, <2>1 DEF OnChannelClosed, TypeOK
  <2>2. CASE channel \notin {"none", "deleted"}
    <3>1. told' \in [Filters -> Seq(Notification)]
      BY <1>4, <1>7, <2>2, TellType DEF OnChannelClosed
    <3>2. filter_channel' \in [Filters -> BOOLEAN] /\ done' \in [Workers -> BOOLEAN]
      <4>1. ForgetChannel(ToSet(filters))
        BY <1>7, <2>2 DEF OnChannelClosed
      <4>2. filter_channel' = [f \in Filters |-> filter_channel[f] /\ f \notin ToSet(filters)]
        BY <4>1 DEF ForgetChannel
      <4>3. done' = [w \in Workers |-> done[w] \/ \E f \in ToSet(filters) : w \in pending[f]]
        BY <4>1 DEF ForgetChannel, SignalAllEvents
      <4>4. filter_channel' \in [Filters -> BOOLEAN]
        BY <4>2 DEF TypeOK
      <4>5. done' \in [Workers -> BOOLEAN]
        BY <4>3 DEF TypeOK
      <4> QED
        BY <4>4, <4>5
    <3> QED
      BY <1>4, <1>7, <2>2, <3>1, <3>2 DEF OnChannelClosed, Shut, TypeOK
  <2> QED
    BY <2>1, <2>2
<1>8. CASE OnSendMessage
  <2>1. NoId \in Ids
    BY ConstantsOK DEF Ids, NoId
  <2>2. CASE Refuse /\ OnChannelError
    BY <1>8, <2>1, <2>2, ChannelSendType, ErrorType DEF OnSendMessage, TypeOK
  <2>3. CASE Accept(NoId) /\ UNCHANGED <<told, filter_channel, done, listener_loop>>
    BY <1>8, <2>1, <2>3, ChannelSendType DEF OnSendMessage, TypeOK
  <2>4. CASE UNCHANGED <<channelVars, input, output, told, filter_channel, done, listener_loop>>
    BY <1>8, <2>4 DEF OnSendMessage, TypeOK
  <2> QED
    BY <1>8, <2>2, <2>3, <2>4 DEF OnSendMessage
<1>9. CASE OnAddFilter
  <2>1. filters' \in Seq(Filters)
    BY <1>2, <1>9, AppendProperties DEF OnAddFilter, TypeOK
  <2>2. told' \in [Filters -> Seq(Notification)]
    <3>1. CASE channel \in {"none", "deleted"}
      BY <1>9, <3>1 DEF OnAddFilter, TypeOK
    <3>2. CASE channel \notin {"none", "deleted"}
      BY <1>4, <1>9, <3>2, TellType DEF OnAddFilter
    <3> QED
      BY <3>1, <3>2
  <2>3. filter_channel' \in [Filters -> BOOLEAN] /\ io_loop' \in [Filters -> BOOLEAN]
    BY <1>9 DEF OnAddFilter, FilterAdded, TypeOK
  <2> QED
    BY <1>9, <2>1, <2>2, <2>3 DEF OnAddFilter, TypeOK
<1>10. CASE OnRemoveFilter
  <2>1. told' \in [Filters -> Seq(Notification)]
    BY <1>4, <1>10, TellType DEF OnRemoveFilter
  <2>2. filters' \in Seq(Filters)
    <3>1. \A i, j \in DOMAIN filters : filters[i] = filters[j] => i = j
      BY DEF FilterInv, AddedOnce
    <3>2. filters \in Seq(Filters) /\ DOMAIN filters = 1 .. Len(filters)
      BY LenProperties DEF TypeOK
    <3>3. CASE NextTask.filter \in ToSet(filters)
      BY <1>10, <3>1, <3>2, <3>3, RemovedOnce DEF OnRemoveFilter
    <3>4. CASE NextTask.filter \notin ToSet(filters)
      <4>1. ~ \E i \in 1 .. Len(filters) : filters[i] = NextTask.filter
        BY <3>2, <3>4 DEF ToSet
      <4> QED
        BY <1>10, <3>2, <4>1 DEF OnRemoveFilter, RemoveFirst
    <3> QED
      BY <3>3, <3>4
  <2> QED
    BY <1>10, <2>1, <2>2 DEF OnRemoveFilter, TypeOK
<1>11. CASE SendOnIOThread
  <2>1. NextTask.id \in Ids
    BY <1>1 DEF IpcTask
  <2>2. done' \in [Workers -> BOOLEAN]
    BY <1>11 DEF SendOnIOThread, SignalAllEvents, TypeOK
  <2>3. CASE Accept(NextTask.id) \/ Refuse
    BY <1>11, <2>1, <2>2, <2>3, ChannelSendType DEF SendOnIOThread, TypeOK
  <2>4. CASE UNCHANGED <<channelVars, input, output>>
    BY <1>11, <2>2, <2>4 DEF SendOnIOThread, TypeOK
  <2> QED
    BY <1>11, <2>3, <2>4 DEF SendOnIOThread
<1> QED
  BY <1>5, <1>6, <1>7, <1>8, <1>9, <1>10, <1>11 DEF RunIpcTask

\* The other steps of the IPC thread keep the types.
LEMMA ChannelStepType ==
  ASSUME TypeOK, Receive \/ ReadError \/ Unblock
  PROVE  TypeOK'
<1> USE DEF channelVars
<1>1. <<>> \in Seq(Message) /\ <<"connected">> \in Seq(Notification)
      /\ "connected" \in ListenerCall /\ "message" \in ListenerCall
  BY DEF Notification, ListenerCall
<1>2. CASE Receive
  <2>1. input' \in Seq(Message)
    BY <1>2, HeadTailProperties DEF Receive, TypeOK
  <2>2. listener_loop' \in Seq(ListenerCall)
    <3>1. \/ listener_loop' = Append(listener_loop, "connected")
          \/ listener_loop' = Append(listener_loop, "message")
          \/ UNCHANGED listener_loop
      BY <1>2 DEF Receive
    <3>2. listener_loop \in Seq(ListenerCall)
      BY DEF TypeOK
    <3> QED
      BY <1>1, <3>1, <3>2, AppendProperties
  <2>3. told' \in [Filters -> Seq(Notification)]
    <3>1. CASE Tell(ToSet(filters), <<"connected">>)
      BY <1>1, <3>1, TellType
    <3>2. CASE UNCHANGED told
      BY <3>2 DEF TypeOK
    <3> QED
      BY <1>2, <3>1, <3>2 DEF Receive
  <2>4. done' \in [Workers -> BOOLEAN] /\ result' \in [Workers -> BOOLEAN]
    BY <1>2 DEF Receive, TypeOK
  <2> QED
    BY <1>2, <2>1, <2>2, <2>3, <2>4 DEF Receive, TypeOK
<1>3. CASE ReadError
  <2>1. /\ told' \in [Filters -> Seq(Notification)]
        /\ filter_channel' \in [Filters -> BOOLEAN]
        /\ done' \in [Workers -> BOOLEAN] /\ listener_loop' \in Seq(ListenerCall)
    BY <1>3, ErrorType DEF ReadError
  <2>2. channel' = "closed" /\ queued' = {} /\ input' = <<>>
    BY <1>3 DEF ReadError, Shut
  <2> QED
    BY <1>1, <1>3, <2>1, <2>2 DEF ReadError, TypeOK
<1>4. CASE Unblock
  <2>1. CASE alive
    BY <1>4, <2>1 DEF Unblock, TypeOK
  <2>2. CASE ~alive
    <3>1. /\ told' \in [Filters -> Seq(Notification)]
          /\ filter_channel' \in [Filters -> BOOLEAN]
          /\ done' \in [Workers -> BOOLEAN] /\ listener_loop' \in Seq(ListenerCall)
      BY <1>4, <2>2, ErrorType DEF Unblock
    <3>2. channel' = "closed" /\ queued' = {} /\ input' = <<>> /\ blocked' = FALSE
          /\ UNCHANGED output
      BY <1>4, <2>2 DEF Unblock, Shut
    <3> QED
      BY <1>1, <1>4, <3>1, <3>2 DEF Unblock, TypeOK
  <2> QED
    BY <2>1, <2>2
<1> QED
  BY <1>2, <1>3, <1>4

\* A posted task keeps the types when nothing else changes its own.
LEMMA PostType ==
  ASSUME TypeOK, NEW t \in IpcTask, PostIpc(t)
  PROVE  ipc_loop' \in Seq(IpcTask)
BY AppendProperties DEF PostIpc, TypeOK

LEMMA TypeOKNext ==
  ASSUME TypeOK, FiltersAreKnown, FilterInv, [Next]_vars
  PROVE  TypeOK'
<1> USE DEF clientVars, filterVars, workerVars, peerVars, channelVars
<1>0. NoId \in Ids
  BY ConstantsOK DEF NoId, Ids
<1>1. ASSUME NEW f \in Filters, AddFilter(f) \/ RemoveFilter(f)
      PROVE  TypeOK'
  <2>1. FilterTask("add", f, NoId) \in IpcTask /\ FilterTask("remove", f, NoId) \in IpcTask
    BY <1>0 DEF FilterTask, IpcTask
  <2>2. ipc_loop' \in Seq(IpcTask)
    BY <1>1, <2>1, PostType DEF AddFilter, RemoveFilter
  <2> QED
    BY <1>1, <2>2 DEF AddFilter, RemoveFilter, TypeOK
<1>2. CASE Send \/ Close
  <2>1. Task("send") \in IpcTask /\ Task("closed") \in IpcTask
    BY <1>0 DEF Task, IpcTask
  <2>2. ipc_loop' \in Seq(IpcTask)
    BY <1>2, <2>1, PostType DEF Send, Close
  <2>3. posts' \in 0 .. MaxPosts /\ listener' \in BOOLEAN
    <3>1. posts \in 0 .. MaxPosts /\ listener \in BOOLEAN /\ MaxPosts \in Nat
      BY ConstantsOK DEF TypeOK
    <3>2. CASE Send
      <4>1. posts < MaxPosts /\ posts' = posts + 1 /\ UNCHANGED listener
        BY <3>2 DEF Send
      <4> QED
        BY <3>1, <4>1
    <3>3. CASE Close
      <4>1. UNCHANGED posts /\ listener' = FALSE
        BY <3>3 DEF Close
      <4> QED
        BY <3>1, <4>1
    <3> QED
      BY <1>2, <3>2, <3>3
  <2> QED
    BY <1>2, <2>2, <2>3 DEF Send, Close, TypeOK
<1>3. CASE Dispatch
  <2>1. listener_loop' \in Seq(ListenerCall) /\ Head(listener_loop) \in ListenerCall
    <3>1. listener_loop \in Seq(ListenerCall) /\ listener_loop # <<>>
      BY <1>3 DEF Dispatch, TypeOK
    <3> QED
      BY <1>3, <3>1, HeadTailProperties DEF Dispatch
  <2> DEFINE announced == IF listener /\ ~called /\ Head(listener_loop) # "error"
                          THEN Append(heard, "connected") ELSE heard
  <2>2. announced \in Seq(ListenerCall)
    BY AppendProperties DEF TypeOK, ListenerCall
  <2>3. heard' = Heard(announced, Head(listener_loop)) \/ heard' = announced
    BY <1>3 DEF Dispatch
  <2> HIDE DEF announced
  <2>4. heard' \in Seq(ListenerCall)
    BY <2>1, <2>2, <2>3, AppendProperties DEF Heard
  <2>5. called' \in BOOLEAN
    BY <1>3 DEF Dispatch, TypeOK
  <2> QED
    BY <1>3, <2>1, <2>4, <2>5 DEF Dispatch, TypeOK
<1>4. CASE IpcStep
  BY <1>4, TaskType, ChannelStepType DEF IpcStep
<1>5. ASSUME NEW w \in Workers, WorkerStep(w)
      PROVE  TypeOK'
  <2>1. CASE PostSend(w)
    <3>1. FilterTask("filter send", using[w], id[w]) \in IpcTask
      BY DEF FilterTask, IpcTask, TypeOK
    <3>2. ipc_loop' \in Seq(IpcTask)
      BY <2>1, <3>1, PostType DEF PostSend
    <3> QED
      BY <2>1, <3>2 DEF PostSend, TypeOK
  <2>2. CASE InsertPending(w) \/ WaitReturns(w) \/ ErasePending(w)
    <3>1. at' \in [Workers -> {"idle", "insert", "post", "wait", "erase"}]
      BY <2>2 DEF InsertPending, WaitReturns, ErasePending, TypeOK
    <3>2. pending' \in [Filters -> SUBSET Workers]
      BY <2>2 DEF InsertPending, WaitReturns, ErasePending, TypeOK
    <3> QED
      BY <2>2, <3>1, <3>2 DEF InsertPending, WaitReturns, ErasePending, TypeOK
  <2> QED
    BY <1>5, <2>1, <2>2 DEF WorkerStep
<1>6. ASSUME NEW w \in Workers, NEW f \in Filters, NEW sync \in BOOLEAN, BeginSend(w, f, sync)
      PROVE  TypeOK'
  <2>1. FilterTask("filter send", f, NoId) \in IpcTask
    BY <1>0 DEF FilterTask, IpcTask
  <2>2. ipc_loop' \in Seq(IpcTask)
    BY <1>6, <2>1, PostType DEF BeginSend, TypeOK
  <2>3. next_id \in Ids /\ next_id' \in 1 .. MaxSends + 1
    <3>1. next_id \in 1 .. MaxSends + 1 /\ MaxSends \in Nat
      BY ConstantsOK DEF TypeOK
    <3>2. next_id <= MaxSends /\ next_id' = next_id + 1
      BY <1>6 DEF BeginSend
    <3> QED
      BY <3>1, <3>2 DEF Ids
  <2>4. /\ at' \in [Workers -> {"idle", "insert", "post", "wait", "erase"}]
        /\ using' \in [Workers -> Filters \cup {"none"}]
        /\ id' \in [Workers -> Ids]
        /\ done' \in [Workers -> BOOLEAN] /\ result' \in [Workers -> BOOLEAN]
    BY <1>6, <2>3 DEF BeginSend, TypeOK
  <2> QED
    BY <1>6, <2>2, <2>3, <2>4 DEF BeginSend, TypeOK
<1>7. CASE PeerSends
  <2>1. Plain("message") \in Message
    BY <1>0 DEF Plain, Message
  <2>2. input' \in Seq(Message)
    BY <1>7, <2>1, AppendProperties DEF PeerSends, TypeOK
  <2>3. incoming' \in 0 .. MaxIncoming
    BY <1>7, ConstantsOK DEF PeerSends, TypeOK
  <2> QED
    BY <1>7, <2>2, <2>3 DEF PeerSends, TypeOK
<1>8. ASSUME NEW i \in output, NEW ok \in BOOLEAN, PeerAnswers(i, ok)
      PROVE  TypeOK'
  <2>1. Reply(i, ok) \in Message /\ i \in Ids
    BY DEF Reply, Message, TypeOK
  <2>2. input' \in Seq(Message)
    BY <1>8, <2>1, AppendProperties DEF PeerAnswers, TypeOK
  <2>3. output' \subseteq Ids /\ answered' \subseteq Ids
    BY <1>8, <2>1 DEF PeerAnswers, TypeOK
  <2> QED
    BY <1>8, <2>2, <2>3 DEF PeerAnswers, TypeOK
<1>9. CASE PeerDies \/ Shutdown
  BY <1>9 DEF PeerDies, Shutdown, TypeOK
<1>10. CASE UNCHANGED vars
  BY <1>10 DEF vars, TypeOK
<1> QED
  BY <1>1, <1>2, <1>3, <1>4, <1>5, <1>6, <1>7, <1>8, <1>9, <1>10, ConstantsOK
     DEF Next, PeerAnswer

----------------------------------------------------------------------------
(* Tasks and workers have filters.                                         *)

KnownTask(t) == t.kind \in {"add", "remove", "filter send"} => t.filter \in Filters

LEMMA PostKnown ==
  ASSUME TypeOK, FiltersAreKnown, NEW t \in IpcTask, KnownTask(t), PostIpc(t)
  PROVE  \A i \in DOMAIN ipc_loop' : KnownTask(ipc_loop'[i])
<1>1. /\ Len(ipc_loop) \in Nat /\ DOMAIN ipc_loop = 1 .. Len(ipc_loop)
      /\ DOMAIN ipc_loop' = 1 .. Len(ipc_loop) + 1
      /\ \A i \in 1 .. Len(ipc_loop) : ipc_loop'[i] = ipc_loop[i]
      /\ ipc_loop'[Len(ipc_loop) + 1] = t
  BY Posted DEF TypeOK
<1>2. \A i \in 1 .. Len(ipc_loop) : KnownTask(ipc_loop[i])
  BY <1>1 DEF FiltersAreKnown, KnownTask
<1>3. ASSUME NEW i \in DOMAIN ipc_loop'
      PROVE  KnownTask(ipc_loop'[i])
  <2>1. CASE i \in 1 .. Len(ipc_loop)
    <3>1. ipc_loop'[i] = ipc_loop[i]
      BY <1>1, <2>1
    <3> QED
      BY <1>2, <2>1, <3>1
  <2>2. CASE i = Len(ipc_loop) + 1
    BY <1>1, <2>2
  <2> QED
    BY <1>1, <2>1, <2>2
<1> QED
  BY <1>3

LEMMA KnownNext ==
  ASSUME TypeOK, FiltersAreKnown, [Next]_vars
  PROVE  FiltersAreKnown'
<1> USE DEF clientVars, filterVars, workerVars, peerVars, channelVars
<1> DEFINE Tasks == \A i \in DOMAIN ipc_loop' : KnownTask(ipc_loop'[i])
<1>0. NoId \in Ids
  BY ConstantsOK DEF NoId, Ids
<1>1. UNCHANGED ipc_loop => Tasks
  BY DEF FiltersAreKnown, KnownTask
<1>2. UNCHANGED <<at, using>> => \A w \in Workers : at'[w] # "idle" => using'[w] \in Filters
  BY DEF FiltersAreKnown
<1>3. ASSUME Tasks, \A w \in Workers : at'[w] # "idle" => using'[w] \in Filters
      PROVE  FiltersAreKnown'
  BY <1>3 DEF FiltersAreKnown, KnownTask
<1> HIDE DEF Tasks
<1>4. ASSUME NEW f \in Filters, AddFilter(f) \/ RemoveFilter(f)
      PROVE  FiltersAreKnown'
  <2>1. /\ FilterTask("add", f, NoId) \in IpcTask /\ KnownTask(FilterTask("add", f, NoId))
        /\ FilterTask("remove", f, NoId) \in IpcTask /\ KnownTask(FilterTask("remove", f, NoId))
    BY <1>0 DEF FilterTask, IpcTask, KnownTask
  <2>2. Tasks
    BY <1>4, <2>1, PostKnown DEF AddFilter, RemoveFilter, Tasks
  <2> QED
    BY <1>2, <1>3, <1>4, <2>2 DEF AddFilter, RemoveFilter
<1>5. CASE Send \/ Close
  <2>1. /\ Task("send") \in IpcTask /\ KnownTask(Task("send"))
        /\ Task("closed") \in IpcTask /\ KnownTask(Task("closed"))
    BY <1>0 DEF Task, IpcTask, KnownTask
  <2>2. Tasks
    BY <1>5, <2>1, PostKnown DEF Send, Close, Tasks
  <2> QED
    BY <1>2, <1>3, <1>5, <2>2 DEF Send, Close
<1>6. CASE Dispatch \/ Receive \/ ReadError \/ Unblock \/ PeerSends \/ PeerDies \/ Shutdown
  BY <1>1, <1>2, <1>3, <1>6
     DEF Dispatch, Receive, ReadError, Unblock, PeerSends, PeerDies, Shutdown
<1>7. CASE RunIpcTask
  <2>1. /\ Len(ipc_loop) \in Nat \ {0} /\ DOMAIN ipc_loop = 1 .. Len(ipc_loop)
        /\ DOMAIN ipc_loop' = 1 .. Len(ipc_loop) - 1
        /\ \A i \in 1 .. Len(ipc_loop) - 1 : ipc_loop'[i] = ipc_loop[i + 1]
    BY <1>7, Taken DEF RunIpcTask, TypeOK
  <2>2. ASSUME NEW i \in DOMAIN ipc_loop'
        PROVE  i + 1 \in DOMAIN ipc_loop /\ ipc_loop'[i] = ipc_loop[i + 1]
    BY <2>1
  <2>3. Tasks
    BY <2>2 DEF FiltersAreKnown, KnownTask, Tasks
  <2> QED
    BY <1>2, <1>3, <1>7, <2>3 DEF RunIpcTask
<1>8. ASSUME NEW w \in Workers, WorkerStep(w)
      PROVE  FiltersAreKnown'
  <2>1. /\ UNCHANGED using /\ at[w] # "idle" /\ using[w] \in Filters
        /\ \A v \in Workers : v # w => at'[v] = at[v]
    BY <1>8 DEF WorkerStep, InsertPending, PostSend, WaitReturns, ErasePending, TypeOK,
                FiltersAreKnown
  <2>2. \A v \in Workers : at'[v] # "idle" => using'[v] \in Filters
    BY <2>1 DEF FiltersAreKnown
  <2>3. CASE PostSend(w)
    <3> DEFINE t == FilterTask("filter send", using[w], id[w])
    <3>1. t \in IpcTask /\ KnownTask(t)
      BY <2>1 DEF FilterTask, IpcTask, TypeOK, KnownTask
    <3>2. PostIpc(t)
      BY <2>3 DEF PostSend
    <3> QED
      BY <1>3, <2>2, <3>1, <3>2, PostKnown DEF Tasks
  <2>4. CASE UNCHANGED ipc_loop
    BY <1>1, <1>3, <2>2, <2>4
  <2> QED
    BY <1>8, <2>3, <2>4 DEF WorkerStep, InsertPending, WaitReturns, ErasePending
<1>9. ASSUME NEW w \in Workers, NEW f \in Filters, NEW sync \in BOOLEAN, BeginSend(w, f, sync)
      PROVE  FiltersAreKnown'
  <2>1. /\ FilterTask("filter send", f, NoId) \in IpcTask
        /\ KnownTask(FilterTask("filter send", f, NoId))
    BY <1>0 DEF FilterTask, IpcTask, KnownTask
  <2>2. Tasks
    BY <1>1, <1>9, <2>1, PostKnown DEF BeginSend, Tasks
  <2>3. \A v \in Workers : at'[v] # "idle" => using'[v] \in Filters
    <3>1. \/ UNCHANGED <<at, using>>
          \/ /\ at' = [at EXCEPT ![w] = "insert"] /\ using' = [using EXCEPT ![w] = f]
             /\ DOMAIN using = Workers /\ DOMAIN at = Workers
      BY <1>9 DEF BeginSend, TypeOK
    <3> QED
      BY <3>1 DEF FiltersAreKnown
  <2> QED
    BY <1>3, <2>2, <2>3
<1>10. ASSUME NEW i \in output, NEW ok \in BOOLEAN, PeerAnswers(i, ok)
       PROVE  FiltersAreKnown'
  BY <1>1, <1>2, <1>3, <1>10 DEF PeerAnswers
<1>11. CASE UNCHANGED vars
  BY <1>1, <1>2, <1>3, <1>11 DEF vars
<1> QED
  BY <1>4, <1>5, <1>6, <1>7, <1>8, <1>9, <1>10, <1>11, ConstantsOK
     DEF Next, IpcStep, PeerAnswer

----------------------------------------------------------------------------
(* The invariant.                                                          *)

LEMMA InitInv == Init => IInv
<1> SUFFICES ASSUME Init PROVE IInv
  OBVIOUS
<1>0. NoId \in Ids /\ <<>> \in Seq(ListenerCall)
  BY ConstantsOK DEF NoId, Ids
<1>1. \/ channel = "made" /\ ipc_loop = <<Task("opened")>>
      \/ channel = "none" /\ ipc_loop = <<Task("create"), Task("opened")>>
  BY DEF Init
<1>2. /\ Task("opened") \in IpcTask /\ Task("create") \in IpcTask
      /\ Task("opened").kind = "opened" /\ Task("create").kind = "create"
  BY <1>0 DEF Task, IpcTask
<1>3. ipc_loop \in Seq(IpcTask) /\ channel \in {"none", "made"}
  <2>1. <<Task("opened")>> \in Seq(IpcTask) /\ <<Task("create"), Task("opened")>> \in Seq(IpcTask)
    BY <1>2
  <2> QED
    BY <1>1, <2>1
<1>4. /\ filters \in Seq(Filters) /\ \A i, j \in DOMAIN filters : i = j
      /\ \A f \in Filters : client[f] = "new" => f \notin ToSet(filters)
      /\ client \in [Filters -> {"new", "given", "taken"}]
  <2>1. PICK f \in Filters \cup {"none"} : filters = <<>> \/ (f \in Filters /\ filters = <<f>>)
    BY DEF Init, FirstFilters
  <2>2. filters \in Seq(Filters) /\ \A i, j \in DOMAIN filters : i = j
    <3>1. CASE filters = <<>>
      BY <3>1, ToldNothing
    <3>2. CASE f \in Filters /\ filters = <<f>>
      BY <3>2
    <3> QED
      BY <2>1, <3>1, <3>2
  <2>3. client = [f1 \in Filters |-> IF f1 \in ToSet(filters) THEN "given" ELSE "new"]
    BY DEF Init
  <2> QED
    BY <2>2, <2>3
<1>5. input = <<Plain("hello")>> /\ Plain("hello") \in Message /\ Plain("hello").kind = "hello"
  BY <1>0 DEF Init, Plain, Message
<1>6. /\ input \in Seq(Message) /\ DOMAIN input = {1} /\ input[1].kind = "hello"
  BY <1>5
<1>7. \A f \in Filters : /\ told[f] = <<>> /\ ToSet(told[f]) = {} /\ Life(told[f])
                         /\ told[f] \in Seq(Notification) /\ ~filter_channel[f]
  BY ToldNothing DEF Init
<1>8. TypeOK
  <2>1. /\ posts \in 0 .. MaxPosts /\ next_id \in 1 .. MaxSends + 1
        /\ incoming \in 0 .. MaxIncoming
    BY ConstantsOK DEF Init
  <2>2. told \in [Filters -> Seq(Notification)]
    BY <1>7 DEF Init
  <2> QED
    BY <1>0, <1>3, <1>4, <1>6, <2>1, <2>2 DEF Init, TypeOK
<1>9. FiltersAreKnown
  <2>1. \A i \in DOMAIN ipc_loop : ipc_loop[i].kind \in {"create", "opened"}
    BY <1>1, <1>2
  <2> QED
    BY <2>1 DEF FiltersAreKnown, Init
<1>10. Opening
  <2>1. CASE channel = "made"
    <3>1. Len(ipc_loop) = 1 /\ DOMAIN ipc_loop = {1} /\ ipc_loop[1].kind = "opened"
      BY <1>1, <1>2, <2>1
    <3> QED
      BY <1>7, <2>1, <3>1 DEF Opening
  <2>2. CASE channel = "none"
    <3>1. /\ Len(ipc_loop) = 2 /\ DOMAIN ipc_loop = {1, 2}
          /\ ipc_loop[1].kind = "create" /\ ipc_loop[2].kind = "opened"
      BY <1>1, <1>2, <2>2
    <3> QED
      BY <1>7, <2>2, <3>1 DEF Opening
  <2> QED
    BY <1>3, <2>1, <2>2
<1>11. AddedOnce
  <2>1. \A i \in DOMAIN ipc_loop : ipc_loop[i].kind # "add"
    BY <1>1, <1>2
  <2> QED
    BY <1>4, <1>7, <2>1 DEF AddedOnce, IsAdd, Unknown
<1>12. ListedFilters
  <2>1. ToSet(filters) \subseteq Filters
    BY <1>4, LenProperties DEF ToSet
  <2> QED
    BY <1>3, <1>6, <1>7, <2>1 DEF ListedFilters
<1>13. ChannelIsKnown /\ DeletedChannelIsForgotten
  BY <1>7 DEF ChannelIsKnown, DeletedChannelIsForgotten
<1>14. FilterLifeCycle
  BY <1>7, LifeForm
<1>15. PendingEntryIsOnStack /\ ResultWasAnswered
  BY DEF Init, PendingEntryIsOnStack, ResultWasAnswered
<1>16. RepliesAreAnswers
  BY <1>6 DEF RepliesAreAnswers
<1> QED
  BY <1>8, <1>9, <1>10, <1>11, <1>12, <1>13, <1>14, <1>15, <1>16 DEF IInv, FilterInv, WorkerInv

LEMMA Invariance == Spec => []IInv
<1>1. IInv /\ [Next]_vars => IInv'
  BY TypeOKNext, KnownNext, FilterInvNext, WorkerInvNext DEF IInv
<1> QED
  BY InitInv, <1>1, PTL DEF Spec

\* Every variable of the context, its filters and the workers keeps its type.
THEOREM TypeCorrect == Spec => []TypeOK
<1>1. IInv => TypeOK
  BY DEF IInv
<1> QED
  BY Invariance, <1>1, PTL

\* What a filter is told comes in order: OnFilterAdded first, the connection
\* once, OnChannelClosing before OnFilterRemoved, and nothing after it (the
\* handlers of ChannelProxy::Context).
THEOREM FiltersHearInOrder == Spec => []FilterLifeCycle
<1>1. IInv => FilterLifeCycle
  BY DEF IInv, FilterInv
<1> QED
  BY Invariance, <1>1, PTL

\* Once OnChannelClosed deleted the channel, only a SyncMessageFilter that
\* was removed before still points to it.
THEOREM ChannelIsForgotten == Spec => []DeletedChannelIsForgotten
<1>1. IInv => DeletedChannelIsForgotten
  BY DEF IInv, FilterInv
<1> QED
  BY Invariance, <1>1, PTL

\* pending_sync_messages_ points only to variables of calls of
\* SyncMessageFilter::Send that have not returned.
THEOREM PendingEntriesAreOnStack == Spec => []PendingEntryIsOnStack
<1>1. IInv => PendingEntryIsOnStack
  BY DEF IInv, WorkerInv
<1> QED
  BY Invariance, <1>1, PTL

\* SyncMessageFilter::Send returns TRUE only if the peer answered the message
\* that it sent.
THEOREM ResultsWereAnswered == Spec => []ResultWasAnswered
<1>1. IInv => ResultWasAnswered
  BY DEF IInv, WorkerInv
<1> QED
  BY Invariance, <1>1, PTL

----------------------------------------------------------------------------
(* What the listener hears, in order.  channel_connected_called_ tells      *)
(* whether it has heard that the peer is connected.                         *)

InOrder(h) ==
  \A i \in DOMAIN h :
    LET before == {h[j] : j \in 1 .. i - 1}
    IN  IF h[i] = "connected" THEN before \subseteq {"error"}
        ELSE h[i] = "error" \/ "connected" \in before

HeardInv ==
  /\ InOrder(heard)
  /\ ~called => "connected" \notin ToSet(heard)
  /\ called /\ listener => "connected" \in ToSet(heard)

\* The calls before place i are among all the calls.
LEMMA HeardAppended ==
  ASSUME NEW h \in Seq(ListenerCall), InOrder(h), NEW c \in ListenerCall,
         c = "connected" => "connected" \notin ToSet(h),
         c = "message" => "connected" \in ToSet(h)
  PROVE  /\ Append(h, c) \in Seq(ListenerCall)
         /\ ToSet(Append(h, c)) = ToSet(h) \cup {c}
         /\ InOrder(Append(h, c))
<1> DEFINE t == Append(h, c)
           n == Len(h) + 1
<1>1. Len(h) \in Nat /\ DOMAIN h = 1 .. Len(h)
  BY LenProperties
<1>2. /\ t \in Seq(ListenerCall) /\ Len(t) = n
      /\ \A i \in 1 .. Len(h) : t[i] = h[i]
      /\ t[n] = c
  BY AppendProperties
<1>3. DOMAIN t = 1 .. n
  BY <1>2, LenProperties
<1> HIDE DEF t
<1>4. ToSet(h) = {h[j] : j \in 1 .. Len(h)} /\ ToSet(t) = ToSet(h) \cup {c}
  <2>1. ToSet(h) = {h[j] : j \in 1 .. Len(h)}
    BY <1>1 DEF ToSet
  <2>2. ToSet(t) = {t[j] : j \in 1 .. n}
    BY <1>3 DEF ToSet
  <2>3. \A j \in 1 .. n : t[j] \in ToSet(h) \cup {c}
    BY <1>1, <1>2, <2>1
  <2>4. \A j \in 1 .. Len(h) : h[j] \in ToSet(t)
    BY <1>1, <1>2, <2>2
  <2>5. c \in ToSet(t)
    BY <1>1, <1>2, <2>2
  <2> QED
    BY <2>1, <2>2, <2>3, <2>4, <2>5
<1>5. \A i \in 1 .. n : {t[j] : j \in 1 .. i - 1} = {h[j] : j \in 1 .. i - 1}
  <2> SUFFICES ASSUME NEW i \in 1 .. n
               PROVE  {t[j] : j \in 1 .. i - 1} = {h[j] : j \in 1 .. i - 1}
    OBVIOUS
  <2>1. \A j \in 1 .. i - 1 : t[j] = h[j]
    BY <1>1, <1>2
  <2> QED
    BY <2>1
<1>6. c = "connected" => ToSet(h) \subseteq {"error"}
  <2> SUFFICES ASSUME c = "connected", NEW i \in 1 .. Len(h)
               PROVE  h[i] = "error"
    BY <1>4
  <2>1. h[i] # "connected" /\ h[i] \in ListenerCall
    BY <1>1, <1>4
  <2>2. "connected" \notin {h[j] : j \in 1 .. i - 1}
    BY <1>1, <1>4
  <2> QED
    BY <1>1, <2>1, <2>2 DEF InOrder
<1>7. ASSUME NEW i \in 1 .. n
      PROVE  LET before == {t[j] : j \in 1 .. i - 1}
             IN  IF t[i] = "connected" THEN before \subseteq {"error"}
                 ELSE t[i] = "error" \/ "connected" \in before
  <2>1. CASE i \in 1 .. Len(h)
    <3>1. t[i] = h[i] /\ {t[j] : j \in 1 .. i - 1} = {h[j] : j \in 1 .. i - 1}
      BY <1>2, <1>5, <2>1
    <3>2. i \in DOMAIN h
      BY <1>1, <2>1
    <3> QED
      BY <3>1, <3>2 DEF InOrder
  <2>2. CASE i = n
    <3>1. t[i] = c /\ {t[j] : j \in 1 .. i - 1} = ToSet(h)
      <4>1. i - 1 = Len(h)
        BY <1>1, <2>2
      <4> QED
        BY <1>2, <1>4, <1>5, <2>2, <4>1
    <3> QED
      BY <1>6, <3>1 DEF ListenerCall
  <2>3. i \in 1 .. Len(h) \/ i = n
    BY <1>1
  <2> QED
    BY <2>1, <2>2, <2>3
<1>8. InOrder(t)
  BY <1>3, <1>7 DEF InOrder
<1> QED
  BY <1>2, <1>4, <1>8 DEF t

LEMMA DispatchHeard ==
  ASSUME TypeOK, HeardInv, Dispatch
  PROVE  HeardInv'
<1> DEFINE task == Head(listener_loop)
           announces == listener /\ ~called /\ task # "error"
           announced == IF announces THEN Append(heard, "connected") ELSE heard
<1>1. /\ task \in ListenerCall /\ heard \in Seq(ListenerCall)
      /\ called' = (called \/ announces \/ task = "connected") /\ UNCHANGED listener
      /\ heard' = IF listener /\ task # "connected" THEN Heard(announced, task) ELSE announced
  <2>1. listener_loop \in Seq(ListenerCall) /\ listener_loop # <<>>
    BY DEF Dispatch, TypeOK
  <2>2. task \in ListenerCall
    BY <2>1, HeadTailProperties
  <2> QED
    BY <2>2 DEF Dispatch, TypeOK
<1>2. /\ announced \in Seq(ListenerCall) /\ InOrder(announced)
      /\ ToSet(announced) = IF announces THEN ToSet(heard) \cup {"connected"} ELSE ToSet(heard)
  <2>1. CASE announces
    <3>1. "connected" \in ListenerCall /\ "connected" \notin ToSet(heard)
      BY <2>1 DEF HeardInv, ListenerCall
    <3>2. /\ Append(heard, "connected") \in Seq(ListenerCall)
          /\ ToSet(Append(heard, "connected")) = ToSet(heard) \cup {"connected"}
          /\ InOrder(Append(heard, "connected"))
      BY <1>1, <3>1, HeardAppended DEF HeardInv
    <3> QED
      BY <2>1, <3>2
  <2>2. CASE ~announces
    BY <1>1, <2>2 DEF HeardInv
  <2> QED
    BY <2>1, <2>2
<1>3. CASE heard' = announced
  <2>1. InOrder(heard')
    BY <1>2, <1>3
  <2>2. ~called' => "connected" \notin ToSet(heard')
    BY <1>1, <1>2, <1>3 DEF HeardInv
  <2>3. called' /\ listener' => "connected" \in ToSet(heard')
    BY <1>1, <1>2, <1>3 DEF HeardInv
  <2> QED
    BY <2>1, <2>2, <2>3 DEF HeardInv
<1>4. CASE listener /\ task # "connected" /\ heard' = Append(announced, task)
  <2>1. task = "message" => "connected" \in ToSet(announced)
    BY <1>2, <1>4 DEF HeardInv
  <2>2. InOrder(heard') /\ ToSet(heard') = ToSet(announced) \cup {task}
    <3> HIDE DEF announced, task
    <3>1. /\ InOrder(Append(announced, task))
          /\ ToSet(Append(announced, task)) = ToSet(announced) \cup {task}
      BY <1>1, <1>2, <1>4, <2>1, HeardAppended
    <3> QED
      BY <1>4, <3>1
  <2>3. ~called' => "connected" \notin ToSet(heard')
    BY <1>1, <1>2, <1>4, <2>2 DEF HeardInv
  <2>4. called' /\ listener' => "connected" \in ToSet(heard')
    BY <1>1, <1>2, <1>4, <2>2 DEF HeardInv
  <2> QED
    BY <2>2, <2>3, <2>4 DEF HeardInv
<1> QED
  BY <1>1, <1>3, <1>4 DEF Heard

LEMMA HeardInvNext ==
  ASSUME TypeOK, HeardInv, [Next]_vars
  PROVE  HeardInv'
<1> USE DEF clientVars
<1>1. ASSUME UNCHANGED <<heard, called>>, listener' => listener
      PROVE  HeardInv'
  BY <1>1 DEF HeardInv
<1>2. CASE Dispatch
  BY <1>2, DispatchHeard
<1>3. CASE Close
  BY <1>1, <1>3 DEF Close
<1>4. ASSUME NEW f \in Filters, AddFilter(f) \/ RemoveFilter(f)
      PROVE  HeardInv'
  BY <1>1, <1>4 DEF AddFilter, RemoveFilter
<1>5. CASE Send \/ PeerSends \/ PeerDies \/ Shutdown
  BY <1>1, <1>5 DEF Send, PeerSends, PeerDies, Shutdown
<1>6. CASE IpcStep
  BY <1>1, <1>6 DEF IpcStep, RunIpcTask, Receive, ReadError, Unblock
<1>7. ASSUME NEW w \in Workers, WorkerStep(w) PROVE HeardInv'
  BY <1>1, <1>7 DEF WorkerStep, InsertPending, PostSend, WaitReturns, ErasePending
<1>8. ASSUME NEW w \in Workers, NEW f, NEW sync, BeginSend(w, f, sync) PROVE HeardInv'
  BY <1>1, <1>8 DEF BeginSend
<1>9. ASSUME NEW i, NEW ok, PeerAnswers(i, ok) PROVE HeardInv'
  BY <1>1, <1>9 DEF PeerAnswers
<1>10. CASE UNCHANGED vars
  BY <1>1, <1>10 DEF vars
<1> QED
  BY <1>2, <1>3, <1>4, <1>5, <1>6, <1>7, <1>8, <1>9, <1>10 DEF Next, PeerAnswer

\* A step after Close calls no listener.
LEMMA ClosedHearsNothing ==
  ASSUME [Next]_vars, ~listener
  PROVE  heard' = heard
<1> USE DEF clientVars
<1>1. CASE Dispatch
  BY <1>1 DEF Dispatch
<1>2. CASE Send \/ Close \/ PeerSends \/ PeerDies \/ Shutdown
  BY <1>2 DEF Send, Close, PeerSends, PeerDies, Shutdown
<1>3. ASSUME NEW f \in Filters, AddFilter(f) \/ RemoveFilter(f)
      PROVE  heard' = heard
  BY <1>3 DEF AddFilter, RemoveFilter
<1>4. CASE IpcStep
  BY <1>4 DEF IpcStep, RunIpcTask, Receive, ReadError, Unblock
<1>5. ASSUME NEW w \in Workers, WorkerStep(w) PROVE heard' = heard
  BY <1>5 DEF WorkerStep, InsertPending, PostSend, WaitReturns, ErasePending
<1>6. ASSUME NEW w \in Workers, NEW f, NEW sync, BeginSend(w, f, sync) PROVE heard' = heard
  BY <1>6 DEF BeginSend
<1>7. ASSUME NEW i, NEW ok, PeerAnswers(i, ok) PROVE heard' = heard
  BY <1>7 DEF PeerAnswers
<1>8. CASE UNCHANGED vars
  BY <1>8 DEF vars
<1> QED
  BY <1>1, <1>2, <1>3, <1>4, <1>5, <1>6, <1>7, <1>8 DEF Next, PeerAnswer

LEMMA InitHeard ==
  ASSUME Init
  PROVE  HeardInv
<1>1. heard = <<>> /\ DOMAIN heard = {} /\ ToSet(heard) = {} /\ ~called
  BY ToldNothing DEF Init
<1> QED
  BY <1>1 DEF HeardInv, InOrder

\* The listener is told once, and before any message, that the peer is
\* connected, although two tasks may say so (OnDispatchConnected and the first
\* OnDispatchMessage), and nothing once ChannelProxy::Close cleared listener_.
THEOREM ListenerIsToldInOrder == Spec => ListenerHearsInOrder
<1>1. Spec => []HeardInv
  <2>1. TypeOK /\ HeardInv /\ [Next]_vars => HeardInv'
    BY HeardInvNext
  <2> QED
    BY InitHeard, TypeCorrect, <2>1, PTL DEF Spec
<1>2. HeardInv' /\ [Next]_vars =>
        [/\ ~listener => heard' = heard
         /\ \A i \in DOMAIN heard' :
              LET before == {heard'[j] : j \in 1 .. i - 1}
              IN  IF heard'[i] = "connected" THEN before \subseteq {"error"}
                  ELSE heard'[i] = "error" \/ "connected" \in before]_vars
  BY ClosedHearsNothing DEF HeardInv, InOrder
<1> QED
  BY <1>1, <1>2, PTL DEF Spec, ListenerHearsInOrder

----------------------------------------------------------------------------
(* A blocked worker has an event to come.  Its entry is among the pending   *)
(* ones of its filter, so that whoever tells the filter that the channel    *)
(* failed wakes it, and the filters in the list of an open channel know it. *)

PendingIsListed ==
  \A w \in Workers :
    /\ at[w] \in {"post", "wait", "erase"} => w \in pending[using[w]]
    /\ at[w] # "idle" => id[w] # NoId

OpenIsKnown == channel = "open" => \A f \in ToSet(filters) : filter_channel[f]

InLoop(w) == FilterTask("filter send", using[w], id[w]) \in ToSet(ipc_loop)
OnItsWay(w) ==
  /\ channel = "open" /\ using[w] \in ToSet(filters)
  /\ alive => \/ id[w] \in output \cup queued
              \/ \E m \in ToSet(input) : m.kind = "reply" /\ m.id = id[w]
Carried(w) == Forsaken(w) \/ InLoop(w) \/ OnItsWay(w)
Blocked(w) == at[w] = "wait" /\ ~done[w]

CarryInv == \A w \in Workers : Blocked(w) => Carried(w)

LEMMA CarryForm == UnansweredSendIsCarried <=> CarryInv
BY DEF UnansweredSendIsCarried, CarryInv, Blocked, Carried, InLoop, OnItsWay

\* What a queue holds after an element is put at the end or taken.
LEMMA Held ==
  ASSUME NEW S, NEW s \in Seq(S), NEW e \in S
  PROVE  ToSet(Append(s, e)) = ToSet(s) \cup {e}
<1>1. /\ Len(s) \in Nat /\ DOMAIN s = 1 .. Len(s)
      /\ Append(s, e) \in Seq(S) /\ Len(Append(s, e)) = Len(s) + 1
      /\ \A i \in 1 .. Len(s) : Append(s, e)[i] = s[i]
      /\ Append(s, e)[Len(s) + 1] = e
  BY AppendProperties, LenProperties
<1>2. DOMAIN Append(s, e) = 1 .. Len(s) + 1
  BY <1>1, LenProperties
<1>3. \A x \in ToSet(Append(s, e)) : x \in ToSet(s) \cup {e}
  BY <1>1, <1>2 DEF ToSet
<1>4. \A x \in ToSet(s) : x \in ToSet(Append(s, e))
  BY <1>1, <1>2 DEF ToSet
<1>5. e \in ToSet(Append(s, e))
  BY <1>1, <1>2 DEF ToSet
<1> QED
  BY <1>3, <1>4, <1>5

LEMMA HeldOrHead ==
  ASSUME NEW S, NEW s \in Seq(S), s # <<>>, NEW x \in ToSet(s)
  PROVE  x = Head(s) \/ x \in ToSet(Tail(s))
<1>1. /\ Len(s) \in Nat \ {0} /\ DOMAIN s = 1 .. Len(s) /\ Head(s) = s[1]
      /\ DOMAIN Tail(s) = 1 .. Len(s) - 1
      /\ \A i \in 1 .. Len(s) - 1 : Tail(s)[i] = s[i + 1]
  <2>1. Len(s) \in Nat \ {0}
    BY EmptySeq
  <2>2. Head(s) = s[1]
    BY <2>1
  <2> QED
    BY <2>1, <2>2, HeadTailProperties, LenProperties
<1>2. PICK i \in 1 .. Len(s) : x = s[i]
  BY <1>1 DEF ToSet
<1>3. CASE i = 1
  BY <1>1, <1>2, <1>3
<1>4. CASE i # 1
  <2>1. i - 1 \in 1 .. Len(s) - 1 /\ (i - 1) + 1 = i
    BY <1>1, <1>4
  <2>2. Tail(s)[i - 1] = x /\ i - 1 \in DOMAIN Tail(s)
    BY <1>1, <1>2, <2>1
  <2> QED
    BY <2>2 DEF ToSet
<1> QED
  BY <1>3, <1>4

\* Those that were told that they are removed are not told anything else.
LEMMA RemovedStays ==
  ASSUME TypeOK, NEW fs, NEW ns, Tell(fs, ns), NEW f \in Filters, Removed(f), f \notin fs
  PROVE  Removed(f)'
<1>1. told'[f] = told[f]
  BY DEF Tell
<1> QED
  BY <1>1 DEF Removed

LEMMA RemovedIsNotListed ==
  ASSUME FilterInv, NEW f, Removed(f)
  PROVE  f \notin ToSet(filters)
BY DEF FilterInv, ListedFilters, Removed

\* The channel fails, and those in the list of filters are told.
LEMMA ErrorCarries ==
  ASSUME TypeOK, FilterInv, PendingIsListed, OnChannelError, channel' = "closed",
         UNCHANGED <<pending, using, at>>, NEW w \in Workers, using[w] \in Filters,
         at[w] = "wait", ~done'[w], Forsaken(w) \/ using[w] \in ToSet(filters)
  PROVE  Forsaken(w)'
<1> DEFINE f == using[w]
<1>1. w \in pending[f]
  BY DEF PendingIsListed
<1>2. f \notin ToSet(filters)
  <2>1. done' = [v \in Workers |-> done[v] \/ \E g \in ToSet(filters) : v \in pending[g]]
    BY DEF OnChannelError, ForgetChannel, SignalAllEvents
  <2> QED
    BY <1>1, <2>1
<1>3. f \notin Unwarned
  BY <1>2 DEF Unwarned
<1>4. CASE Removed(f)
  BY <1>3, <1>4, RemovedStays DEF OnChannelError, Forsaken
<1>5. CASE filter_channel[f]
  <2>1. filter_channel'[f]
    BY <1>2, <1>5 DEF OnChannelError, ForgetChannel
  <2> QED
    BY <2>1 DEF Forsaken
<1> QED
  BY <1>2, <1>4, <1>5 DEF Forsaken

\* Nothing is lost on the way of a worker's message.
LEMMA WayStays ==
  ASSUME NEW w \in Workers, using'[w] = using[w], id'[w] = id[w],
         UNCHANGED <<channel, told, filters>>, alive' => alive,
         filter_channel[using[w]] => filter_channel'[using[w]],
         output \cup queued \subseteq output' \cup queued',
         ToSet(input) \subseteq ToSet(input')
  PROVE  (Forsaken(w) => Forsaken(w)') /\ (OnItsWay(w) => OnItsWay(w)')
<1>1. Removed(using[w]) <=> Removed(using[w])'
  BY DEF Removed
<1>2. Forsaken(w) => Forsaken(w)'
  BY <1>1 DEF Forsaken
<1>3. OnItsWay(w) => OnItsWay(w)'
  BY DEF OnItsWay
<1> QED
  BY <1>2, <1>3

\* The IPC thread runs the task of a worker, or it stays.
LEMMA TaskLeft ==
  ASSUME TypeOK, ipc_loop # <<>>, ipc_loop' = Tail(ipc_loop), UNCHANGED <<using, id>>,
         NEW w, InLoop(w), NextTask # FilterTask("filter send", using[w], id[w])
  PROVE  InLoop(w)'
<1>1. ipc_loop \in Seq(IpcTask)
  BY DEF TypeOK
<1> QED
  BY <1>1, HeldOrHead DEF InLoop, NextTask

\* The channel takes the message of a worker or refuses it, and those in the
\* list of a channel that closes are not told; they forsake their workers.
LEMMA SendOnIOThreadCarries ==
  ASSUME TypeOK, FiltersAreKnown, FilterInv, PendingIsListed, OpenIsKnown,
         ipc_loop # <<>>, ipc_loop' = Tail(ipc_loop),
         UNCHANGED <<pending, using, at, id, alive>>, SendOnIOThread,
         NEW w \in Workers, at[w] = "wait", ~done'[w], Carried(w)
  PROVE  Carried(w)'
<1> DEFINE f == NextTask.filter
           i == NextTask.id
           mine == NextTask = FilterTask("filter send", using[w], id[w])
<1>1. /\ using[w] \in Filters /\ w \in pending[using[w]] /\ id[w] # NoId
      /\ channel \in {"open", "closed", "deleted"}
      /\ UNCHANGED <<filters, told, filter_channel>>
  <2>1. using[w] \in Filters
    BY DEF FiltersAreKnown
  <2>2. channel \notin {"none", "made"}
    BY TaskTaken DEF SendOnIOThread
  <2>3. channel \in {"open", "closed", "deleted"}
    BY <2>2 DEF TypeOK
  <2> QED
    BY <2>1, <2>3 DEF PendingIsListed, SendOnIOThread, filterVars
<1>2. mine => f = using[w] /\ i = id[w]
  <2>1. /\ FilterTask("filter send", using[w], id[w]).filter = using[w]
        /\ FilterTask("filter send", using[w], id[w]).id = id[w]
    BY DEF FilterTask
  <2> QED
    BY <2>1
<1>3. mine \/ InLoop(w)' \/ ~InLoop(w)
  BY TaskLeft
<1>4. Removed(using[w]) => Forsaken(w)'
  BY <1>1 DEF Removed, Forsaken
<1>5. filter_channel[using[w]] => using[w] \in ToSet(filters) \/ Forsaken(w)'
  BY <1>1, <1>4 DEF FilterInv, ChannelIsKnown
<1>6. OnItsWay(w) => channel = "open" /\ filter_channel[using[w]]
  BY DEF OnItsWay, OpenIsKnown
<1>7. \/ filter_channel[f] /\ channel # "deleted" /\ Accept(i)
      \/ filter_channel[f] /\ channel # "deleted" /\ Refuse
      \/ filter_channel[f] /\ channel = "deleted" /\ UNCHANGED <<channel, input, output, queued>>
      \/ ~filter_channel[f] /\ (i # NoId => SignalAllEvents({f}))
           /\ UNCHANGED <<channel, input, output, queued>>
  BY DEF SendOnIOThread, channelVars
<1> HIDE DEF f, i, mine
<1>8. CASE filter_channel[f] /\ channel # "deleted" /\ Accept(i)
  <2>1. output \cup queued \subseteq output' \cup queued' /\ UNCHANGED <<channel, input>>
    BY <1>8 DEF Accept
  <2>2. (Forsaken(w) => Forsaken(w)') /\ (OnItsWay(w) => OnItsWay(w)')
    BY <1>1, <2>1, WayStays
  <2>3. CASE mine
    <3>1. CASE channel = "closed"
      BY <1>1, <1>2, <1>8, <2>1, <2>3, <3>1 DEF Carried, Forsaken
    <3>2. CASE channel = "open" /\ using[w] \in ToSet(filters)
      <4>1. id[w] \in output' \cup queued'
        BY <1>1, <1>2, <1>8, <2>3, <3>2 DEF Accept
      <4> QED
        BY <1>1, <2>1, <3>2, <4>1 DEF Carried, OnItsWay
    <3> QED
      BY <1>1, <1>2, <1>5, <1>8, <2>3, <3>1, <3>2 DEF Carried
  <2> QED
    BY <1>3, <2>2, <2>3 DEF Carried
<1>9. CASE filter_channel[f] /\ channel # "deleted" /\ Refuse
  <2>1. channel' = "closed"
    BY <1>9 DEF Refuse, Shut
  <2>2. filter_channel[using[w]] => Forsaken(w)'
    BY <1>1, <2>1 DEF Forsaken
  <2>3. Forsaken(w) => Forsaken(w)'
    BY <1>4, <2>2 DEF Forsaken
  <2> QED
    BY <1>2, <1>3, <1>6, <1>9, <2>2, <2>3 DEF Carried
<1>10. CASE filter_channel[f] /\ channel = "deleted" /\ UNCHANGED <<channel, input, output, queued>>
  <2>1. (Forsaken(w) => Forsaken(w)') /\ (OnItsWay(w) => OnItsWay(w)')
    BY <1>1, <1>10, WayStays
  <2>2. mine => Forsaken(w)'
    BY <1>1, <1>2, <1>4, <1>10 DEF FilterInv, DeletedChannelIsForgotten
  <2> QED
    BY <1>3, <2>1, <2>2 DEF Carried
<1>11. CASE /\ ~filter_channel[f] /\ (i # NoId => SignalAllEvents({f}))
            /\ UNCHANGED <<channel, input, output, queued>>
  <2>1. (Forsaken(w) => Forsaken(w)') /\ (OnItsWay(w) => OnItsWay(w)')
    BY <1>1, <1>11, WayStays
  <2>2. ~mine
    BY <1>1, <1>2, <1>11 DEF SignalAllEvents
  <2> QED
    BY <1>3, <2>1, <2>2 DEF Carried
<1> QED
  BY <1>7, <1>8, <1>9, <1>10, <1>11

\* The task of a worker does not wait for the channel to be created.
LEMMA OpeningCarries ==
  ASSUME TypeOK, FiltersAreKnown, FilterInv, PendingIsListed,
         ipc_loop # <<>>, ipc_loop' = Tail(ipc_loop),
         UNCHANGED <<pending, using, at, id>>, CreateChannel \/ OnChannelOpened,
         NEW w \in Workers, at[w] = "wait", ~done'[w], Carried(w)
  PROVE  Carried(w)'
<1>1. channel \in {"none", "made"}
  <2>1. NextTask = ipc_loop[1] /\ 1 \in DOMAIN ipc_loop
    BY Taken DEF TypeOK
  <2> QED
    BY <2>1 DEF FilterInv, Opening, CreateChannel, OnChannelOpened
<1>2. using[w] \in Filters
  BY DEF FiltersAreKnown
<1>3. told[using[w]] = <<>>
  BY <1>1, <1>2 DEF FilterInv, Opening
<1>4. ~Removed(using[w])
  BY <1>3, ToldNothing DEF Removed
<1>5. InLoop(w)
  BY <1>1, <1>4 DEF Carried, Forsaken, OnItsWay
<1>6. NextTask # FilterTask("filter send", using[w], id[w])
  <2>1. NextTask.kind # "filter send"
    BY DEF CreateChannel, OnChannelOpened
  <2>2. FilterTask("filter send", using[w], id[w]).kind = "filter send"
    BY DEF FilterTask
  <2> QED
    BY <2>1, <2>2
<1> QED
  BY <1>5, <1>6, TaskLeft DEF Carried

\* OnChannelClosed tells every filter in the list.
LEMMA OnChannelClosedCarries ==
  ASSUME TypeOK, FiltersAreKnown, FilterInv, PendingIsListed,
         ipc_loop # <<>>, ipc_loop' = Tail(ipc_loop),
         UNCHANGED <<pending, using, at, id, alive>>, OnChannelClosed,
         NEW w \in Workers, at[w] = "wait", ~done'[w], Carried(w)
  PROVE  Carried(w)'
<1>1. NextTask # FilterTask("filter send", using[w], id[w])
  <2>1. NextTask.kind # "filter send"
    BY DEF OnChannelClosed
  <2>2. FilterTask("filter send", using[w], id[w]).kind = "filter send"
    BY DEF FilterTask
  <2> QED
    BY <2>1, <2>2
<1>2. InLoop(w) => InLoop(w)'
  BY <1>1, TaskLeft
<1>3. using[w] \in Filters /\ w \in pending[using[w]]
  BY DEF FiltersAreKnown, PendingIsListed
<1>4. CASE channel \in {"none", "deleted"}
  <2>1. UNCHANGED <<channel, queued, input, filters, told, filter_channel, output>>
    BY <1>4 DEF OnChannelClosed
  <2>2. (Forsaken(w) => Forsaken(w)') /\ (OnItsWay(w) => OnItsWay(w)')
    BY <2>1, WayStays
  <2> QED
    BY <1>2, <2>2 DEF Carried
<1>5. CASE channel \notin {"none", "deleted"}
  <2>1. /\ Tell(ToSet(filters), <<"closing", "removed">>)
        /\ done' = [v \in Workers |-> done[v] \/ \E g \in ToSet(filters) : v \in pending[g]]
    BY <1>5 DEF OnChannelClosed, ForgetChannel, SignalAllEvents
  <2>2. using[w] \notin ToSet(filters)
    BY <1>3, <2>1
  <2>3. Removed(using[w]) => Forsaken(w)'
    BY <1>3, <2>1, <2>2, RemovedStays DEF Forsaken
  <2>4. filter_channel[using[w]] => Removed(using[w])
    BY <1>3, <2>2 DEF FilterInv, ChannelIsKnown
  <2> QED
    BY <1>2, <2>2, <2>3, <2>4 DEF Carried, Forsaken, OnItsWay
<1> QED
  BY <1>4, <1>5

LEMMA OnSendMessageCarries ==
  ASSUME TypeOK, FiltersAreKnown, FilterInv, PendingIsListed,
         ipc_loop # <<>>, ipc_loop' = Tail(ipc_loop),
         UNCHANGED <<pending, using, at, id, alive>>, OnSendMessage,
         NEW w \in Workers, at[w] = "wait", ~done'[w], Carried(w)
  PROVE  Carried(w)'
<1>1. NextTask # FilterTask("filter send", using[w], id[w])
  <2>1. NextTask.kind # "filter send"
    BY DEF OnSendMessage
  <2>2. FilterTask("filter send", using[w], id[w]).kind = "filter send"
    BY DEF FilterTask
  <2> QED
    BY <2>1, <2>2
<1>2. InLoop(w) => InLoop(w)'
  BY <1>1, TaskLeft
<1>3. using[w] \in Filters
  BY DEF FiltersAreKnown
<1>4. CASE /\ UNCHANGED <<channel, input, filters, told, filter_channel>>
           /\ output \cup queued \subseteq output' \cup queued'
  BY <1>2, <1>4, WayStays DEF Carried
<1>5. CASE channel' = "closed" /\ OnChannelError
  <2>1. Forsaken(w) \/ OnItsWay(w) => Forsaken(w)'
    BY <1>3, <1>5, ErrorCarries DEF OnItsWay
  <2> QED
    BY <1>2, <2>1 DEF Carried
<1> QED
  BY <1>4, <1>5 DEF OnSendMessage, Accept, Refuse, Shut, channelVars

\* A filter that is added was not removed before.
LEMMA OnAddFilterCarries ==
  ASSUME TypeOK, FiltersAreKnown, FilterInv,
         ipc_loop # <<>>, ipc_loop' = Tail(ipc_loop),
         UNCHANGED <<pending, using, at, id, alive>>, OnAddFilter,
         NEW w \in Workers, at[w] = "wait", ~done'[w], Carried(w)
  PROVE  Carried(w)'
<1> DEFINE g == NextTask.filter
<1>1. NextTask # FilterTask("filter send", using[w], id[w])
  <2>1. NextTask.kind # "filter send"
    BY DEF OnAddFilter
  <2>2. FilterTask("filter send", using[w], id[w]).kind = "filter send"
    BY DEF FilterTask
  <2> QED
    BY <2>1, <2>2
<1>2. InLoop(w) => InLoop(w)'
  BY <1>1, TaskLeft
<1>3. using[w] \in Filters
  BY DEF FiltersAreKnown
<1>4. g \in Filters /\ Unknown(g)
  <2>1. NextTask = ipc_loop[1] /\ 1 \in DOMAIN ipc_loop
    BY Taken DEF TypeOK
  <2>2. g \in Filters
    BY <2>1 DEF FiltersAreKnown, OnAddFilter
  <2>3. NextTask.kind \notin {"create", "opened"} /\ IsAdd(NextTask, g)
    BY DEF OnAddFilter, IsAdd
  <2> QED
    BY <2>2, <2>3, TaskTaken
<1>5. \A f \in Filters : f # g => told'[f] = told[f]
  BY DEF OnAddFilter, Tell
<1>6. ~Removed(g)
  BY <1>4, ToldNothing DEF Unknown, Removed
<1>7. \A f \in Filters : filter_channel[f] => filter_channel'[f]
  BY DEF OnAddFilter, FilterAdded
<1>8. /\ filters \in Seq(Filters) /\ filters' = Append(filters, g)
      /\ UNCHANGED <<channel, queued, input, output>>
  BY DEF OnAddFilter, TypeOK, channelVars
<1> HIDE DEF g
<1>9. ToSet(filters') = ToSet(filters) \cup {g}
  BY <1>4, <1>8, Held
<1>10. Removed(using[w]) => Removed(using[w])'
  BY <1>3, <1>5, <1>6 DEF Removed
<1>11. Forsaken(w) => Forsaken(w)'
  BY <1>3, <1>7, <1>8, <1>10 DEF Forsaken
<1>12. OnItsWay(w) => OnItsWay(w)'
  BY <1>8, <1>9 DEF OnItsWay
<1> QED
  BY <1>2, <1>11, <1>12 DEF Carried

\* A filter that is removed is not in the list any more.
LEMMA FilterTakenOut ==
  ASSUME TypeOK, FilterInv, NEW g, filters' = RemoveFirst(filters, g)
  PROVE  ToSet(filters') = ToSet(filters) \ {g}
<1>1. filters \in Seq(Filters)
  BY DEF TypeOK
<1>2. CASE g \in ToSet(filters)
  <2>1. \A i, j \in DOMAIN filters : filters[i] = filters[j] => i = j
    BY DEF FilterInv, AddedOnce
  <2> QED
    BY <1>1, <1>2, <2>1, RemovedOnce
<1>3. CASE g \notin ToSet(filters)
  <2>1. ~ \E i \in 1 .. Len(filters) : filters[i] = g
    BY <1>1, <1>3, LenProperties DEF ToSet
  <2> QED
    BY <1>3, <2>1 DEF RemoveFirst
<1> QED
  BY <1>2, <1>3

\* A filter that is removed forsakes the workers that wait in it.
LEMMA OnRemoveFilterCarries ==
  ASSUME TypeOK, FiltersAreKnown, FilterInv,
         ipc_loop # <<>>, ipc_loop' = Tail(ipc_loop),
         UNCHANGED <<pending, using, at, id, alive>>, OnRemoveFilter,
         NEW w \in Workers, at[w] = "wait", ~done'[w], Carried(w)
  PROVE  Carried(w)'
<1> DEFINE g == NextTask.filter
<1>1. NextTask # FilterTask("filter send", using[w], id[w])
  <2>1. NextTask.kind # "filter send"
    BY DEF OnRemoveFilter
  <2>2. FilterTask("filter send", using[w], id[w]).kind = "filter send"
    BY DEF FilterTask
  <2> QED
    BY <2>1, <2>2
<1>2. InLoop(w) => InLoop(w)'
  BY <1>1, TaskLeft
<1>3. using[w] \in Filters
  BY DEF FiltersAreKnown
<1>4. /\ filters \in Seq(Filters) /\ filters' = RemoveFirst(filters, g)
      /\ UNCHANGED <<channel, queued, input, output, filter_channel>>
      /\ told \in [Filters -> Seq(Notification)]
      /\ told' = [f \in Filters |-> IF f \in ToSet(filters) \cap {g}
                                    THEN told[f] \o <<"removed">> ELSE told[f]]
  BY DEF OnRemoveFilter, TypeOK, channelVars, Tell
<1> HIDE DEF g
<1>5. CASE using[w] = g /\ g \in ToSet(filters)
  <2>1. /\ told[g] \in Seq(Notification) /\ "removed" \in Notification
        /\ "closing" \notin ToSet(told[g])
    BY <1>3, <1>4, <1>5 DEF FilterInv, ListedFilters, Notification
  <2>2. told'[g] = told[g] \o <<"removed">>
    BY <1>3, <1>4, <1>5
  <2>3. ToSet(told[g] \o <<"removed">>) = ToSet(told[g]) \cup {"removed"}
    BY <2>1, OneMore
  <2>4. ToSet(told'[g]) = ToSet(told[g]) \cup {"removed"}
    BY <2>2, <2>3
  <2>5. using'[w] = g
    BY <1>5
  <2>6. Removed(using[w])'
    BY <2>1, <2>4, <2>5 DEF Removed
  <2> QED
    BY <2>6 DEF Carried, Forsaken
<1>6. CASE ~(using[w] = g /\ g \in ToSet(filters))
  <2>1. told'[using[w]] = told[using[w]]
    BY <1>3, <1>4, <1>6
  <2>2. Forsaken(w) => Forsaken(w)'
    BY <1>4, <2>1 DEF Forsaken, Removed
  <2>3. using[w] \in ToSet(filters) => using[w] \in ToSet(filters')
    <3>1. ToSet(filters') = ToSet(filters) \ {g}
      BY <1>4, FilterTakenOut
    <3> QED
      BY <1>6, <3>1
  <2>4. OnItsWay(w) => OnItsWay(w)'
    BY <1>4, <2>3 DEF OnItsWay
  <2> QED
    BY <1>2, <2>2, <2>4 DEF Carried
<1> QED
  BY <1>5, <1>6

\* Receive takes the reply of a worker only if it wakes the worker.
LEMMA ReceiveCarries ==
  ASSUME TypeOK, FiltersAreKnown, FilterInv, PendingIsListed, Receive,
         NEW w \in Workers, at[w] = "wait", ~done'[w], Carried(w)
  PROVE  Carried(w)'
<1> DEFINE m == Head(input)
           asking == UNION {Asking(f, m) : f \in ToSet(filters)}
<1>1. /\ UNCHANGED <<channel, filters, filter_channel, using, id, alive, output, queued, ipc_loop>>
      /\ input \in Seq(Message) /\ input # <<>> /\ input' = Tail(input)
  BY DEF Receive, TypeOK, channelVars
<1>2. using[w] \in Filters /\ w \in pending[using[w]]
  BY DEF FiltersAreKnown, PendingIsListed
<1>3. InLoop(w) => InLoop(w)'
  BY <1>1 DEF InLoop
<1>4. Removed(using[w]) => Removed(using[w])'
  <2>1. CASE UNCHANGED told
    BY <1>1, <2>1 DEF Removed
  <2>2. CASE Tell(ToSet(filters), <<"connected">>)
    <3>1. Removed(using[w]) => using[w] \notin ToSet(filters)
      BY RemovedIsNotListed
    <3>2. using[w] \notin ToSet(filters) => told'[using[w]] = told[using[w]]
      BY <1>2, <2>2 DEF Tell
    <3> QED
      BY <1>1, <3>1, <3>2 DEF Removed
  <2> QED
    BY <2>1, <2>2 DEF Receive
<1>5. Forsaken(w) => Forsaken(w)'
  BY <1>1, <1>4 DEF Forsaken
<1>6. OnItsWay(w) => OnItsWay(w)'
  <2>1. ASSUME using[w] \in ToSet(filters), m.kind = "reply", m.id = id[w]
        PROVE  FALSE
    <3>1. w \in Asking(using[w], m)
      BY <1>2, <2>1 DEF Asking
    <3>2. w \in asking
      BY <2>1, <3>1
    <3>3. m.kind # "hello" /\ asking # {}
      BY <2>1, <3>2
    <3> HIDE DEF m, asking
    <3>4. done' = [v \in Workers |-> done[v] \/ v \in asking]
      BY <3>3 DEF Receive, m, asking
    <3> QED
      BY <3>2, <3>4
  <2>2. ASSUME NEW n \in ToSet(input), n # m
        PROVE  n \in ToSet(input')
    BY <1>1, <2>2, HeldOrHead
  <2> QED
    BY <1>1, <2>1, <2>2 DEF OnItsWay
<1> QED
  BY <1>3, <1>5, <1>6 DEF Carried

\* The channel fails when it reads the end of the pipe.
LEMMA ReadErrorCarries ==
  ASSUME TypeOK, FiltersAreKnown, FilterInv, PendingIsListed, ReadError,
         NEW w \in Workers, at[w] = "wait", ~done'[w], Carried(w)
  PROVE  Carried(w)'
<1>1. /\ using[w] \in Filters /\ channel' = "closed" /\ OnChannelError
      /\ UNCHANGED <<pending, using, at, id, ipc_loop>>
  BY DEF FiltersAreKnown, ReadError, Shut
<1>2. InLoop(w) => InLoop(w)'
  BY <1>1 DEF InLoop
<1>3. Forsaken(w) \/ OnItsWay(w) => Forsaken(w)'
  BY <1>1, ErrorCarries DEF OnItsWay
<1> QED
  BY <1>2, <1>3 DEF Carried

\* What a blocked write held back is written, or the channel fails.
LEMMA UnblockCarries ==
  ASSUME TypeOK, FiltersAreKnown, FilterInv, PendingIsListed, Unblock,
         NEW w \in Workers, at[w] = "wait", ~done'[w], Carried(w)
  PROVE  Carried(w)'
<1>1. using[w] \in Filters /\ UNCHANGED <<pending, using, at, id, alive, filters, ipc_loop>>
  BY DEF FiltersAreKnown, Unblock
<1>2. InLoop(w) => InLoop(w)'
  BY <1>1 DEF InLoop
<1>3. CASE UNCHANGED <<channel, input, told, filter_channel>> /\ output' = output \cup queued
  BY <1>1, <1>2, <1>3, WayStays DEF Carried
<1>4. CASE channel' = "closed" /\ OnChannelError
  <2>1. Forsaken(w) \/ OnItsWay(w) => Forsaken(w)'
    BY <1>1, <1>4, ErrorCarries DEF OnItsWay
  <2> QED
    BY <1>2, <2>1 DEF Carried
<1> QED
  BY <1>3, <1>4 DEF Unblock, Shut

\* The peer's answer to a request is a message of the channel.
LEMMA PeerAnswersCarries ==
  ASSUME TypeOK, NEW i \in output, NEW ok \in BOOLEAN, PeerAnswers(i, ok),
         NEW w \in Workers, Carried(w)
  PROVE  Carried(w)'
<1>1. /\ UNCHANGED <<using, id, channel, told, filters, filter_channel, queued, alive, ipc_loop>>
      /\ output' = output \ {i}
  BY DEF PeerAnswers, clientVars, filterVars, workerVars, channelVars
<1>2. (Forsaken(w) => Forsaken(w)') /\ (InLoop(w) => InLoop(w)')
  BY <1>1 DEF Forsaken, Removed, InLoop
<1>3. ASSUME OnItsWay(w)
      PROVE  OnItsWay(w)'
  <2>1. /\ channel = "open" /\ input \in Seq(Message)
        /\ Reply(i, ok) \in Message /\ input' = Append(input, Reply(i, ok))
    BY <1>3 DEF OnItsWay, TypeOK, PeerAnswers, Reply, Message
  <2>2. ToSet(input') = ToSet(input) \cup {Reply(i, ok)}
    BY <2>1, Held
  <2>3. Reply(i, ok).kind = "reply" /\ Reply(i, ok).id = i
    BY DEF Reply
  <2>4. CASE id[w] = i
    <3>1. \E m \in ToSet(input') : m.kind = "reply" /\ m.id = id'[w]
      BY <1>1, <2>2, <2>3, <2>4
    <3> QED
      BY <1>1, <1>3, <3>1 DEF OnItsWay
  <2>5. CASE id[w] # i
    BY <1>1, <1>3, <2>2, <2>5 DEF OnItsWay
  <2> QED
    BY <2>4, <2>5
<1> QED
  BY <1>2, <1>3 DEF Carried

\* The other threads and the peer take nothing away.
LEMMA OutsideCarries ==
  ASSUME TypeOK, NEW w \in Workers, using'[w] = using[w], id'[w] = id[w],
         UNCHANGED <<channel, told, filters, filter_channel, output, queued>>, alive' => alive,
         NEW t \in IpcTask, PostIpc(t) \/ UNCHANGED ipc_loop,
         NEW m \in Message, input' = Append(input, m) \/ UNCHANGED input,
         Carried(w)
  PROVE  Carried(w)'
<1>1. ToSet(ipc_loop) \subseteq ToSet(ipc_loop')
  <2>1. ipc_loop \in Seq(IpcTask)
    BY DEF TypeOK
  <2>2. ToSet(Append(ipc_loop, t)) = ToSet(ipc_loop) \cup {t}
    BY <2>1, Held
  <2>3. ipc_loop' = Append(ipc_loop, t) \/ ipc_loop' = ipc_loop
    BY DEF PostIpc
  <2> QED
    BY <2>2, <2>3
<1>2. ToSet(input) \subseteq ToSet(input')
  <2>1. input \in Seq(Message)
    BY DEF TypeOK
  <2>2. ToSet(Append(input, m)) = ToSet(input) \cup {m}
    BY <2>1, Held
  <2> QED
    BY <2>2
<1>3. InLoop(w) => InLoop(w)'
  BY <1>1 DEF InLoop
<1> QED
  BY <1>2, <1>3, WayStays DEF Carried

\* A worker's entry is inserted before its message is posted, and erased last.
LEMMA PendingIsListedNext ==
  ASSUME TypeOK, FiltersAreKnown, PendingIsListed, [Next]_vars
  PROVE  PendingIsListed'
<1>1. CASE UNCHANGED <<pending, using, at, id>>
  BY <1>1 DEF PendingIsListed
<1>2. ASSUME NEW w \in Workers, WorkerStep(w)
      PROVE  PendingIsListed'
  <2>1. /\ UNCHANGED <<using, id>>
        /\ at \in [Workers -> {"idle", "insert", "post", "wait", "erase"}]
        /\ pending \in [Filters -> SUBSET Workers]
    BY <1>2 DEF WorkerStep, InsertPending, PostSend, WaitReturns, ErasePending, TypeOK
  <2>2. \/ /\ at[w] = "insert" /\ at' = [at EXCEPT ![w] = "post"]
           /\ pending' = [pending EXCEPT ![using[w]] = @ \cup {w}]
        \/ at' = [at EXCEPT ![w] = "wait"] /\ at[w] = "post" /\ UNCHANGED pending
        \/ at' = [at EXCEPT ![w] = "erase"] /\ at[w] = "wait" /\ UNCHANGED pending
        \/ /\ at' = [at EXCEPT ![w] = "idle"] /\ at[w] = "erase"
           /\ pending' = [pending EXCEPT ![using[w]] = @ \ {w}]
    BY <1>2 DEF WorkerStep, InsertPending, PostSend, WaitReturns, ErasePending
  <2>3. \A v \in Workers : at[v] # "idle" => using[v] \in Filters
    BY DEF FiltersAreKnown
  <2>4. \A v \in Workers : at'[v] \in {"post", "wait", "erase"} => v \in pending'[using'[v]]
    BY <2>1, <2>2, <2>3 DEF PendingIsListed
  <2>5. \A v \in Workers : at'[v] # "idle" => id'[v] # NoId
    BY <2>1, <2>2 DEF PendingIsListed
  <2> QED
    BY <2>4, <2>5 DEF PendingIsListed
<1>3. ASSUME NEW w \in Workers, NEW f \in Filters, NEW sync \in BOOLEAN, BeginSend(w, f, sync)
      PROVE  PendingIsListed'
  <2>1. UNCHANGED pending
    BY <1>3 DEF BeginSend
  <2>2. CASE UNCHANGED <<at, using, id>>
    BY <1>1, <2>1, <2>2
  <2>3. CASE /\ at' = [at EXCEPT ![w] = "insert"]
             /\ using' = [using EXCEPT ![w] = f]
             /\ id' = [id EXCEPT ![w] = next_id]
    <3>1. next_id # NoId
      BY ConstantsOK DEF TypeOK, NoId
    <3>2. /\ \A v \in Workers : v # w => at'[v] = at[v] /\ using'[v] = using[v] /\ id'[v] = id[v]
          /\ at'[w] = "insert" /\ id'[w] = next_id
      BY <2>3 DEF TypeOK
    <3> QED
      BY <2>1, <3>1, <3>2 DEF PendingIsListed
  <2> QED
    BY <1>3, <2>2, <2>3 DEF BeginSend
<1>4. CASE \/ \E f \in Filters : AddFilter(f) \/ RemoveFilter(f)
           \/ Send \/ Close \/ Dispatch
  BY <1>1, <1>4 DEF AddFilter, RemoveFilter, Send, Close, Dispatch, workerVars
<1>5. CASE RunIpcTask
  BY <1>1, <1>5 DEF RunIpcTask
<1>6. CASE Receive \/ ReadError \/ Unblock
  BY <1>1, <1>6 DEF Receive, ReadError, Unblock
<1>7. CASE PeerSends \/ PeerAnswer \/ PeerDies \/ Shutdown \/ UNCHANGED vars
  BY <1>1, <1>7
     DEF PeerSends, PeerAnswer, PeerAnswers, PeerDies, Shutdown, vars, workerVars
<1> QED
  BY <1>2, <1>3, <1>4, <1>5, <1>6, <1>7 DEF Next, IpcStep

\* OnChannelOpened and OnAddFilter tell the filters of the channel.
LEMMA OpenIsKnownNext ==
  ASSUME TypeOK, FiltersAreKnown, FilterInv, OpenIsKnown, [Next]_vars
  PROVE  OpenIsKnown'
<1> USE DEF clientVars, filterVars, workerVars, peerVars, channelVars
<1>1. CASE UNCHANGED <<channel, filters, filter_channel>>
  BY <1>1 DEF OpenIsKnown
<1>2. CASE channel' # "open"
  BY <1>2 DEF OpenIsKnown
<1>3. filters \in Seq(Filters) /\ filter_channel \in [Filters -> BOOLEAN]
  BY DEF TypeOK
<1>4. ToSet(filters) \subseteq Filters
  BY <1>3, LenProperties DEF ToSet
<1>5. CASE RunIpcTask
  <2>1. CASE CreateChannel
    BY <1>2, <2>1 DEF CreateChannel
  <2>2. CASE OnChannelOpened
    <3>1. CASE FilterAdded(ToSet(filters))
      <4>1. \A f \in ToSet(filters') : filter_channel'[f]
        BY <1>4, <2>2, <3>1 DEF OnChannelOpened, FilterAdded
      <4> QED
        BY <4>1 DEF OpenIsKnown
    <3>2. CASE channel' = "closed"
      BY <1>2, <3>2
    <3> QED
      BY <2>2, <3>1, <3>2 DEF OnChannelOpened, Shut
  <2>3. CASE OnChannelClosed
    BY <1>2, <2>3 DEF OnChannelClosed, Shut
  <2>4. CASE OnSendMessage
    <3>1. CASE channel' = "closed"
      BY <1>2, <3>1
    <3>2. CASE UNCHANGED <<channel, filter_channel>>
      BY <1>1, <2>4, <3>2 DEF OnSendMessage
    <3> QED
      BY <2>4, <3>1, <3>2 DEF OnSendMessage, Accept, Refuse, Shut
  <2>5. CASE OnAddFilter
    <3> DEFINE g == NextTask.filter
    <3>1. g \in Filters
      <4>1. NextTask = ipc_loop[1] /\ 1 \in DOMAIN ipc_loop
        <5>1. ipc_loop # <<>> /\ ipc_loop' = Tail(ipc_loop)
          BY <1>5 DEF RunIpcTask
        <5> QED
          BY <5>1, Taken DEF TypeOK
      <4> QED
        BY <2>5, <4>1 DEF FiltersAreKnown, OnAddFilter
    <3>2. filters' = Append(filters, g)
      BY <2>5 DEF OnAddFilter
    <3>3. channel = "open" =>
            filter_channel' = [f \in Filters |-> filter_channel[f] \/ f \in {g}]
      BY <2>5 DEF OnAddFilter, FilterAdded
    <3>4. UNCHANGED channel
      BY <2>5 DEF OnAddFilter
    <3> HIDE DEF g
    <3>5. ToSet(filters') = ToSet(filters) \cup {g}
      BY <1>3, <3>1, <3>2, Held
    <3> QED
      BY <1>4, <3>1, <3>3, <3>4, <3>5 DEF OpenIsKnown
  <2>6. CASE OnRemoveFilter
    <3> DEFINE g == NextTask.filter
    <3>1. UNCHANGED <<channel, filter_channel>> /\ filters' = RemoveFirst(filters, g)
      BY <2>6 DEF OnRemoveFilter
    <3> HIDE DEF g
    <3>2. ToSet(filters') = ToSet(filters) \ {g}
      BY <3>1, FilterTakenOut
    <3> QED
      BY <3>1, <3>2 DEF OpenIsKnown
  <2>7. CASE SendOnIOThread
    <3>1. CASE channel' = "closed"
      BY <1>2, <3>1
    <3>2. CASE UNCHANGED channel
      BY <1>1, <2>7, <3>2 DEF SendOnIOThread
    <3> QED
      BY <2>7, <3>1, <3>2 DEF SendOnIOThread, Accept, Refuse, Shut
  <2> QED
    BY <1>5, <2>1, <2>2, <2>3, <2>4, <2>5, <2>6, <2>7 DEF RunIpcTask
<1>6. CASE Receive
  BY <1>1, <1>6 DEF Receive
<1>7. CASE ReadError
  BY <1>2, <1>7 DEF ReadError, Shut
<1>8. CASE Unblock
  <2>1. CASE channel' = "closed"
    BY <1>2, <2>1
  <2>2. CASE UNCHANGED <<channel, filter_channel>>
    BY <1>1, <1>8, <2>2 DEF Unblock
  <2> QED
    BY <1>8, <2>1, <2>2 DEF Unblock, Shut
<1>9. CASE \/ \E f \in Filters : AddFilter(f) \/ RemoveFilter(f)
           \/ Send \/ Close \/ Dispatch
  BY <1>1, <1>9 DEF AddFilter, RemoveFilter, Send, Close, Dispatch
<1>10. ASSUME NEW w \in Workers,
              WorkerStep(w) \/ \E f \in Filters, sync \in BOOLEAN : BeginSend(w, f, sync)
       PROVE  OpenIsKnown'
  BY <1>1, <1>10
     DEF WorkerStep, InsertPending, PostSend, WaitReturns, ErasePending, BeginSend
<1>11. CASE PeerSends \/ PeerAnswer \/ PeerDies \/ Shutdown \/ UNCHANGED vars
  BY <1>1, <1>11
     DEF PeerSends, PeerAnswer, PeerAnswers, PeerDies, Shutdown, vars
<1> QED
  BY <1>5, <1>6, <1>7, <1>8, <1>9, <1>10, <1>11 DEF Next, IpcStep

LEMMA CarryTask ==
  ASSUME TypeOK, FiltersAreKnown, FilterInv, PendingIsListed, OpenIsKnown, RunIpcTask,
         NEW w \in Workers, at[w] = "wait", ~done'[w], Carried(w)
  PROVE  Carried(w)'
<1>1. /\ ipc_loop # <<>> /\ ipc_loop' = Tail(ipc_loop)
      /\ UNCHANGED <<pending, using, at, id, alive>>
  BY DEF RunIpcTask
<1>2. CASE CreateChannel \/ OnChannelOpened
  BY <1>1, <1>2, OpeningCarries
<1>3. CASE OnChannelClosed
  BY <1>1, <1>3, OnChannelClosedCarries
<1>4. CASE OnSendMessage
  BY <1>1, <1>4, OnSendMessageCarries
<1>5. CASE OnAddFilter
  BY <1>1, <1>5, OnAddFilterCarries
<1>6. CASE OnRemoveFilter
  BY <1>1, <1>6, OnRemoveFilterCarries
<1>7. CASE SendOnIOThread
  BY <1>1, <1>7, SendOnIOThreadCarries
<1> QED
  BY <1>2, <1>3, <1>4, <1>5, <1>6, <1>7 DEF RunIpcTask

\* A worker blocks once its task is posted, and one that is blocked stays
\* carried, whoever takes a step.
LEMMA CarryNext ==
  ASSUME TypeOK, FiltersAreKnown, FilterInv, PendingIsListed, OpenIsKnown, CarryInv,
         [Next]_vars
  PROVE  CarryInv'
<1> USE DEF clientVars, filterVars, workerVars, peerVars, channelVars
<1>0. /\ NoId \in Ids
      /\ Task("send") \in IpcTask /\ Task("closed") \in IpcTask /\ Plain("message") \in Message
      /\ \A f \in Filters : /\ FilterTask("add", f, NoId) \in IpcTask
                            /\ FilterTask("remove", f, NoId) \in IpcTask
                            /\ FilterTask("filter send", f, NoId) \in IpcTask
  BY ConstantsOK DEF Task, FilterTask, IpcTask, Plain, Message, Ids, NoId
<1>1. SUFFICES ASSUME NEW w \in Workers, at'[w] = "wait", ~done'[w]
               PROVE  Carried(w)'
  BY DEF CarryInv, Blocked
<1>2. at[w] = "wait" /\ ~done[w] => Carried(w)
  BY DEF CarryInv, Blocked
<1>3. ASSUME NEW f \in Filters, AddFilter(f) \/ RemoveFilter(f)
      PROVE  Carried(w)'
  <2>1. Carried(w)
    BY <1>1, <1>2, <1>3 DEF AddFilter, RemoveFilter
  <2>2. PICK t \in IpcTask : PostIpc(t)
    BY <1>0, <1>1, <1>3 DEF AddFilter, RemoveFilter
  <2>3. /\ UNCHANGED <<using, id, channel, told, filters, filter_channel, output, queued>>
        /\ UNCHANGED <<alive, input>>
    BY <1>3 DEF AddFilter, RemoveFilter
  <2> QED
    BY <1>0, <2>1, <2>2, <2>3, OutsideCarries
<1>4. CASE Send \/ Close
  <2>1. Carried(w)
    BY <1>1, <1>2, <1>4 DEF Send, Close
  <2>2. PICK t \in IpcTask : PostIpc(t)
    BY <1>0, <1>1, <1>4 DEF Send, Close
  <2>3. /\ UNCHANGED <<using, id, channel, told, filters, filter_channel, output, queued>>
        /\ UNCHANGED <<alive, input>>
    BY <1>4 DEF Send, Close
  <2> QED
    BY <1>0, <2>1, <2>2, <2>3, OutsideCarries
<1>5. CASE Dispatch \/ PeerDies \/ Shutdown \/ UNCHANGED vars
  <2>1. Carried(w)
    BY <1>1, <1>2, <1>5 DEF Dispatch, PeerDies, Shutdown, vars
  <2>2. /\ UNCHANGED <<using, id, channel, told, filters, filter_channel, output, queued, input>>
        /\ UNCHANGED ipc_loop /\ (alive' => alive)
    BY <1>5 DEF Dispatch, PeerDies, Shutdown, vars
  <2> QED
    BY <1>0, <2>1, <2>2, OutsideCarries
<1>6. CASE RunIpcTask
  <2>1. at[w] = "wait" /\ (done[w] => done'[w])
    BY <1>1, <1>6 DEF RunIpcTask, CreateChannel, OnChannelOpened, OnChannelClosed, OnSendMessage,
                OnAddFilter, OnRemoveFilter, SendOnIOThread, OnChannelError, ForgetChannel,
                SignalAllEvents
  <2> QED
    BY <1>1, <1>2, <1>6, <2>1, CarryTask
<1>7. CASE Receive
  <2>1. at[w] = "wait" /\ (done[w] => done'[w])
    BY <1>1, <1>7 DEF Receive
  <2> QED
    BY <1>1, <1>2, <1>7, <2>1, ReceiveCarries
<1>8. CASE ReadError \/ Unblock
  <2>1. at[w] = "wait" /\ (done[w] => done'[w])
    BY <1>1, <1>8 DEF ReadError, Unblock, OnChannelError, ForgetChannel, SignalAllEvents
  <2> QED
    BY <1>1, <1>2, <1>8, <2>1, ReadErrorCarries, UnblockCarries
<1>9. ASSUME NEW v \in Workers, WorkerStep(v)
      PROVE  Carried(w)'
  <2>1. CASE PostSend(v) /\ v = w
    <3> DEFINE t == FilterTask("filter send", using[w], id[w])
    <3>1. ipc_loop \in Seq(IpcTask) /\ t \in IpcTask
      BY DEF TypeOK, FilterTask, IpcTask
    <3>2. ipc_loop' = Append(ipc_loop, t) /\ UNCHANGED <<using, id>>
      BY <2>1 DEF PostSend, PostIpc
    <3> HIDE DEF t
    <3>3. t \in ToSet(ipc_loop')
      BY <3>1, <3>2, Held
    <3> QED
      BY <3>2, <3>3 DEF t, Carried, InLoop
  <2>2. CASE PostSend(v) /\ v # w
    <3> DEFINE t == FilterTask("filter send", using[v], id[v])
    <3>1. t \in IpcTask
      BY DEF TypeOK, FilterTask, IpcTask
    <3>2. PostIpc(t)
      BY <2>2 DEF PostSend
    <3>3. Carried(w)
      BY <1>1, <1>2, <2>2 DEF PostSend, TypeOK
    <3> HIDE DEF t
    <3> QED
      BY <1>0, <1>1, <2>2, <3>1, <3>2, <3>3, OutsideCarries DEF PostSend
  <2>3. CASE InsertPending(v) \/ WaitReturns(v) \/ ErasePending(v)
    <3>1. at[w] = "wait" /\ UNCHANGED done
      BY <1>1, <2>3 DEF InsertPending, WaitReturns, ErasePending, TypeOK
    <3>2. /\ UNCHANGED <<using, id, channel, told, filters, filter_channel, output, queued>>
          /\ UNCHANGED <<alive, input>>
          /\ UNCHANGED ipc_loop
      BY <2>3 DEF InsertPending, WaitReturns, ErasePending
    <3> QED
      BY <1>0, <1>1, <1>2, <3>1, <3>2, OutsideCarries
  <2> QED
    BY <1>9, <2>1, <2>2, <2>3 DEF WorkerStep
<1>10. ASSUME NEW v \in Workers, NEW f \in Filters, NEW sync \in BOOLEAN, BeginSend(v, f, sync)
       PROVE  Carried(w)'
  <2>1. PICK t \in IpcTask : PostIpc(t) \/ UNCHANGED ipc_loop
    BY <1>0, <1>1, <1>10 DEF BeginSend
  <2>2. \/ UNCHANGED <<at, using, id, done>>
        \/ /\ at' = [at EXCEPT ![v] = "insert"]
           /\ using' = [using EXCEPT ![v] = f]
           /\ id' = [id EXCEPT ![v] = next_id]
           /\ done' = [done EXCEPT ![v] = FALSE]
    BY <1>10 DEF BeginSend
  <2>3. at[w] = "wait" /\ done'[w] = done[w] /\ using'[w] = using[w] /\ id'[w] = id[w]
    BY <1>1, <2>2 DEF TypeOK
  <2> QED
    BY <1>0, <1>1, <1>2, <1>10, <2>1, <2>3, OutsideCarries DEF BeginSend
<1>11. CASE PeerSends
  <2>1. Carried(w)
    BY <1>1, <1>2, <1>11 DEF PeerSends
  <2> QED
    BY <1>0, <1>1, <1>11, <2>1, OutsideCarries DEF PeerSends
<1>12. ASSUME NEW i \in output, NEW ok \in BOOLEAN, PeerAnswers(i, ok)
       PROVE  Carried(w)'
  <2>1. Carried(w)
    BY <1>1, <1>2, <1>12 DEF PeerAnswers
  <2> QED
    BY <1>12, <2>1, PeerAnswersCarries
<1> QED
  BY <1>3, <1>4, <1>5, <1>6, <1>7, <1>8, <1>9, <1>10, <1>11, <1>12, ConstantsOK
     DEF Next, IpcStep, PeerAnswer

\* A thread that is blocked in SyncMessageFilter::Send has an event to come:
\* SendOnIOThread is to run, or its request or the reply is under way, or the
\* channel that fails will wake it; unless the filter was removed or was not
\* told that the channel failed.
THEOREM BlockedSendsAreCarried == Spec => []UnansweredSendIsCarried
<1> DEFINE Way == PendingIsListed /\ OpenIsKnown /\ CarryInv
<1>1. Init => Way
  <2>1. ASSUME Init
        PROVE  channel # "open" /\ \A w \in Workers : at[w] = "idle"
    BY <2>1 DEF Init
  <2> QED
    BY <2>1 DEF PendingIsListed, OpenIsKnown, CarryInv, Blocked
<1>2. IInv /\ Way /\ [Next]_vars => Way'
  BY PendingIsListedNext, OpenIsKnownNext, CarryNext DEF IInv
<1>3. Way => UnansweredSendIsCarried
  BY CarryForm
<1> HIDE DEF Way
<1> QED
  BY <1>1, <1>2, <1>3, Invariance, PTL DEF Spec

=============================================================================
