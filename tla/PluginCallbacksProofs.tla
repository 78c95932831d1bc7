------------------------ MODULE PluginCallbacksProofs ------------------------
(***************************************************************************)
(* The safety properties of PluginCallbacks, for any sets of loaders and   *)
(* Graphics2D resources, any number of ids and any bound.  They are one    *)
(* induction.  An answer finds its own callback because no other message   *)
(* carries the same one, which is CarriedOnce; and a resource that is      *)
(* created has no operation from before, which is MessagesAreOfResources.  *)
(***************************************************************************)
EXTENDS PluginCallbacks, SequenceTheorems, WellFoundedInduction, TLAPS

\* Everything that was sent and not received, and everything the browser is to
\* answer.
Carried == ToSet(to_browser) \cup pending \cup ToSet(to_plugin)

\* No two operations of a sequence have the same callback.
OnceEach(s) ==
  \A i, j \in DOMAIN s : s[i].callback = s[j].callback => i = j \/ s[i].callback = None

\* No operation of one set has the callback of one of the other.
Apart(S, T) ==
  \A a \in S, b \in T : a.callback = b.callback => a.callback = None

\* Every operation is in one place, once.
CarriedOnce ==
  /\ OnceEach(to_browser) /\ OnceEach(to_plugin)
  /\ \A a, b \in pending : a.callback = b.callback => a = b
  /\ Apart(ToSet(to_browser), pending)
  /\ Apart(ToSet(to_browser), ToSet(to_plugin))
  /\ Apart(pending, ToSet(to_plugin))
  /\ Apart(executing, Carried)

\* A message is about a resource that was created, and of a callback that was
\* handed over; one that releases a resource was sent when it was released.
MessagesAreOfResources ==
  \A op \in Carried \cup executing :
    /\ op.callback <= handed
    /\ op.resource \in tracked \cup released
    /\ op.kind = "release" => op.resource \in released

IInv ==
  /\ TypeOK
  /\ CarriedOnce
  /\ MessagesAreOfResources
  /\ IdIsOfItsCallback
  /\ CurrentOperationIsCarried

----------------------------------------------------------------------------
(* The helpers. *)

\* ToSet has what a sequence has.
LEMMA AppendSet ==
  ASSUME NEW S, NEW s \in Seq(S), NEW e \in S
  PROVE  ToSet(Append(s, e)) = ToSet(s) \cup {e}
<1>1. /\ DOMAIN s = 1 .. Len(s) /\ Len(s) \in Nat
      /\ DOMAIN Append(s, e) = 1 .. Len(s) + 1
      /\ \A i \in 1 .. Len(s) : Append(s, e)[i] = s[i]
      /\ Append(s, e)[Len(s) + 1] = e
  BY AppendProperties
<1> QED
  BY <1>1 DEF ToSet

LEMMA HeadTailSet ==
  ASSUME NEW S, NEW s \in Seq(S), s # <<>>
  PROVE  /\ Head(s) \in S /\ Tail(s) \in Seq(S)
         /\ ToSet(s) = ToSet(Tail(s)) \cup {Head(s)}
<1>1. /\ Len(s) \in Nat \ {0} /\ DOMAIN s = 1 .. Len(s)
      /\ Head(s) = s[1] /\ Head(s) \in S
      /\ Tail(s) \in Seq(S) /\ DOMAIN Tail(s) = 1 .. Len(s) - 1
      /\ \A i \in 1 .. Len(s) - 1 : Tail(s)[i] = s[i + 1]
  BY HeadTailProperties, EmptySeq, LenProperties
<1>2. ASSUME NEW i \in 1 .. Len(s)
      PROVE  s[i] \in ToSet(Tail(s)) \cup {Head(s)}
  <2>1. CASE i = 1
    BY <1>1, <2>1
  <2>2. CASE i # 1
    <3>1. i - 1 \in 1 .. Len(s) - 1 /\ Tail(s)[i - 1] = s[i]
      BY <1>1, <1>2, <2>2
    <3> QED  BY <1>1, <3>1 DEF ToSet
  <2> QED  BY <2>1, <2>2
<1>3. ASSUME NEW i \in 1 .. Len(s) - 1
      PROVE  Tail(s)[i] \in ToSet(s)
  BY <1>1 DEF ToSet
<1>4. Head(s) \in ToSet(s)
  BY <1>1 DEF ToSet
<1> QED
  BY <1>1, <1>2, <1>3, <1>4 DEF ToSet

\* Messages keep their order, each once.
LEMMA AppendOnce ==
  ASSUME NEW S, NEW s \in Seq(S), NEW e \in S, OnceEach(s),
         \A a \in ToSet(s) : a.callback = e.callback => e.callback = None
  PROVE  OnceEach(Append(s, e))
<1>1. /\ DOMAIN s = 1 .. Len(s) /\ Len(s) \in Nat
      /\ DOMAIN Append(s, e) = 1 .. Len(s) + 1
      /\ \A i \in 1 .. Len(s) : Append(s, e)[i] = s[i]
      /\ Append(s, e)[Len(s) + 1] = e
  BY AppendProperties
<1>2. \A i \in 1 .. Len(s) : s[i] \in ToSet(s)
  BY <1>1 DEF ToSet
<1>3. SUFFICES ASSUME NEW i \in 1 .. Len(s) + 1, NEW j \in 1 .. Len(s) + 1,
                      Append(s, e)[i].callback = Append(s, e)[j].callback,
                      Append(s, e)[i].callback # None
               PROVE  i = j
  BY <1>1 DEF OnceEach
<1>4. CASE i \in 1 .. Len(s) /\ j \in 1 .. Len(s)
  BY <1>1, <1>3, <1>4 DEF OnceEach
<1>5. CASE i = Len(s) + 1 \/ j = Len(s) + 1
  BY <1>1, <1>2, <1>3, <1>5
<1> QED
  BY <1>1, <1>4, <1>5

LEMMA TailOnce ==
  ASSUME NEW S, NEW s \in Seq(S), s # <<>>, OnceEach(s)
  PROVE  /\ OnceEach(Tail(s))
         /\ \A a \in ToSet(Tail(s)) : a.callback = Head(s).callback => a.callback = None
<1>1. /\ Len(s) \in Nat \ {0} /\ DOMAIN s = 1 .. Len(s)
      /\ Head(s) = s[1]
      /\ DOMAIN Tail(s) = 1 .. Len(s) - 1
      /\ \A i \in 1 .. Len(s) - 1 : Tail(s)[i] = s[i + 1]
  BY HeadTailProperties, EmptySeq, LenProperties
<1>2. OnceEach(Tail(s))
  BY <1>1 DEF OnceEach
<1>3. ASSUME NEW i \in 1 .. Len(s) - 1, Tail(s)[i].callback = Head(s).callback
      PROVE  Tail(s)[i].callback = None
  <2>1. i + 1 \in 1 .. Len(s) /\ 1 \in 1 .. Len(s) /\ i + 1 # 1
    BY <1>1
  <2> QED  BY <1>1, <1>3, <2>1 DEF OnceEach
<1> QED
  BY <1>1, <1>2, <1>3 DEF ToSet

\* A set of natural numbers that is not empty has a least element.
NatLess == {ss \in Nat \X Nat : ss[1] < ss[2]}

LEMMA LeastNumber ==
  ASSUME NEW S \in SUBSET Nat, S # {}
  PROVE  \E n \in S : \A m \in S : n <= m
<1>1. IsWellFoundedOn(NatLess, Nat)
  BY NatLessThanWellFounded, SMT DEF OpToRel, NatLess
<1>2. \A m, n \in Nat : <<m, n>> \in NatLess <=> m < n
  BY SMT DEF NatLess
<1>3. PICK n \in S : \A m \in S : ~(<<m, n>> \in NatLess)
  BY <1>1, WFMin
<1>4. ASSUME NEW m \in S
      PROVE  n <= m
  <2>1. m \in Nat /\ n \in Nat
    OBVIOUS
  <2>2. ~(<<m, n>> \in NatLess)
    BY <1>3
  <2>3. ~(m < n)
    BY <1>2, <2>1, <2>2
  <2> QED  BY <2>1, <2>3
<1> QED
  BY <1>4

\* The search of SendCallback ends at an id that is free, if there is one: going
\* round once from next_callback_id passes every id.
LEMMA NextFreeIdIsFree ==
  ASSUME TypeOK, FreeIds # {}
  PROVE  NextFreeId \in Id \ DOMAIN callback_map
<1> DEFINE step == {n \in 0 .. IdCount - 1 :
                      (next_callback_id + n) % IdCount \notin DOMAIN callback_map}
<1>1. IdCount \in Nat \ {0} /\ next_callback_id \in 0 .. IdCount - 1
  BY ConstantsOK DEF ConstantsOK, TypeOK, Id
<1>2. PICK i \in 0 .. IdCount - 1 : i \notin DOMAIN callback_map
  BY DEF FreeIds, Id
<1>3. step # {}
  <2>1. CASE i >= next_callback_id
    <3>1. /\ i - next_callback_id \in 0 .. IdCount - 1
          /\ (next_callback_id + (i - next_callback_id)) % IdCount = i
      BY <1>1, <2>1, SMT
    <3> QED  BY <1>2, <3>1
  <2>2. CASE i < next_callback_id
    <3>1. /\ i - next_callback_id + IdCount \in 0 .. IdCount - 1
          /\ next_callback_id + (i - next_callback_id + IdCount) = i + IdCount
      BY <1>1, <2>2, SMT
    <3>2. (i + IdCount) % IdCount = i
      BY <1>1, SMT
    <3> QED  BY <1>2, <3>1, <3>2
  <2> QED  BY <1>1, <2>1, <2>2
<1>4. \E n \in step : \A m \in step : n <= m
  <2>1. step \in SUBSET Nat
    BY <1>1
  <2> QED  BY <1>3, <2>1, LeastNumber
<1> DEFINE n == CHOOSE n \in step : \A m \in step : n <= m
<1>5. n \in step
  BY <1>4
<1>6. NextFreeId = (next_callback_id + n) % IdCount
  BY DEF NextFreeId
<1>7. ASSUME NEW k \in Nat
      PROVE  k % IdCount \in 0 .. IdCount - 1
  BY <1>1, SMT
<1>8. next_callback_id + n \in Nat
  BY <1>1, <1>5
<1> QED
  BY <1>5, <1>6, <1>7, <1>8 DEF Id

----------------------------------------------------------------------------
(* What a message's way does to Carried and CarriedOnce. *)

Messages == Operations \cup ReleaseMessages

LEMMA MessageTypes ==
  /\ \A op \in Messages : op.callback \in Nat
  /\ \A op \in Operations : op \in Messages /\ op.callback # None
                            /\ op.kind # "release"
  /\ \A op \in Messages : op.kind # "release" => op \in Operations
  /\ \A op \in Messages : op.kind = "release" => op \in ReleaseMessages
  BY ConstantsOK DEF ConstantsOK, Messages, Operations, ReleaseMessages, Callback,
     None

LEMMA PlaceTypes ==
  ASSUME TypeOK
  PROVE  /\ to_browser \in Seq(Messages) /\ to_plugin \in Seq(Operations)
         /\ ToSet(to_browser) \subseteq Messages
         /\ ToSet(to_plugin) \subseteq Operations
         /\ pending \subseteq Operations /\ executing \subseteq Operations
         /\ Carried \subseteq Messages
<1>1. /\ to_browser \in Seq(Messages) /\ to_plugin \in Seq(Operations)
      /\ pending \subseteq Operations /\ executing \subseteq Operations
  BY DEF TypeOK, Messages
<1>2. ASSUME NEW S, NEW s \in Seq(S)
      PROVE  ToSet(s) \subseteq S
  BY <1>2, ElementOfSeq, LenProperties DEF ToSet
<1>3. ToSet(to_browser) \subseteq Messages /\ ToSet(to_plugin) \subseteq Operations
  BY <1>1, <1>2
<1> QED
  BY <1>1, <1>3 DEF Carried, Messages

\* A message is sent to the browser; its callback, if it has one, is new.
LEMMA Sent ==
  ASSUME TypeOK, CarriedOnce, MessagesAreOfResources, NEW op \in Messages,
         op.callback = None \/ op.callback = handed + 1,
         to_browser' = Append(to_browser, op),
         UNCHANGED <<pending, to_plugin, executing>>
  PROVE  /\ Carried' = Carried \cup {op}
         /\ to_browser' \in Seq(Messages)
         /\ CarriedOnce'
<1>1. /\ to_browser \in Seq(Messages)
      /\ Carried \subseteq Messages /\ executing \subseteq Messages
  BY PlaceTypes, MessageTypes
<1>2. ToSet(to_browser)' = ToSet(to_browser) \cup {op}
  BY <1>1, AppendSet
<1>3. Carried' = Carried \cup {op}
  BY <1>2 DEF Carried
<1>4. \A a \in Carried \cup executing : a.callback = op.callback => a.callback = None
  <2>1. SUFFICES ASSUME NEW a \in Carried \cup executing, a.callback = op.callback
                 PROVE  a.callback = None
    OBVIOUS
  <2>2. a.callback <= handed /\ a.callback \in Nat /\ handed \in Nat
    BY <1>1, MessageTypes, ConstantsOK
       DEF MessagesAreOfResources, TypeOK, ConstantsOK
  <2> QED  BY <2>1, <2>2
<1>5. OnceEach(to_browser)'
  BY <1>1, <1>4, AppendOnce DEF CarriedOnce, Carried, OnceEach
<1>6. to_browser' \in Seq(Messages)
  BY <1>1, AppendProperties
<1> QED
  BY <1>2, <1>3, <1>4, <1>5, <1>6 DEF CarriedOnce, Apart, Carried, OnceEach

\* The browser takes the next message and answers it.
LEMMA AnsweredAtOnce ==
  ASSUME TypeOK, CarriedOnce, FinishAtOnce
  PROVE  /\ Carried' = Carried
         /\ to_browser' \in Seq(Messages) /\ to_plugin' \in Seq(Operations)
         /\ CarriedOnce'
<1> DEFINE op == Head(to_browser)
<1>1. /\ to_browser \in Seq(Messages) /\ to_browser # <<>>
      /\ to_plugin \in Seq(Operations)
      /\ to_browser' = Tail(to_browser) /\ to_plugin' = Append(to_plugin, op)
      /\ UNCHANGED <<pending, executing>>
  BY PlaceTypes DEF FinishAtOnce, NextToBrowser
<1>2. op \in Operations
  BY <1>1, HeadTailSet, MessageTypes DEF FinishAtOnce, NextToBrowser
<1>3. /\ ToSet(to_browser) = ToSet(to_browser)' \cup {op}
      /\ ToSet(to_plugin)' = ToSet(to_plugin) \cup {op}
  BY <1>1, <1>2, HeadTailSet, AppendSet
<1>4. Carried' = Carried
  BY <1>1, <1>3 DEF Carried
<1>5. /\ OnceEach(to_browser)'
      /\ \A a \in ToSet(to_browser)' : a.callback = op.callback => a.callback = None
  BY <1>1, TailOnce DEF CarriedOnce, OnceEach
<1>6. OnceEach(to_plugin)'
  <2>1. OnceEach(to_plugin)
    BY DEF CarriedOnce
  <2>2. \A a \in ToSet(to_plugin) : a.callback = op.callback => op.callback = None
    BY <1>3 DEF CarriedOnce, Apart
  <2>3. OnceEach(Append(to_plugin, op))
    BY <1>1, <1>2, <2>1, <2>2, AppendOnce
  <2> QED  BY <1>1, <2>3 DEF OnceEach
<1>7. to_browser' \in Seq(Messages) /\ to_plugin' \in Seq(Operations)
  BY <1>1, <1>2, HeadTailSet, AppendProperties
<1>8. /\ Apart(ToSet(to_browser), ToSet(to_plugin))'
      /\ Apart(pending, ToSet(to_plugin))'
      /\ Apart(ToSet(to_browser), pending)'
  BY <1>1, <1>3, <1>5 DEF CarriedOnce, Apart
<1> QED
  BY <1>1, <1>4, <1>5, <1>6, <1>7, <1>8 DEF CarriedOnce, Apart

\* The browser takes the next message and keeps its operation.
LEMMA Deferred ==
  ASSUME TypeOK, CarriedOnce, Defer
  PROVE  /\ Carried' = Carried
         /\ to_browser' \in Seq(Messages) /\ pending' \subseteq Operations
         /\ CarriedOnce'
<1> DEFINE op == Head(to_browser)
<1>1. /\ to_browser \in Seq(Messages) /\ to_browser # <<>>
      /\ pending \subseteq Operations
      /\ to_browser' = Tail(to_browser) /\ pending' = pending \cup {op}
      /\ UNCHANGED <<to_plugin, executing>>
  BY PlaceTypes DEF Defer, NextToBrowser
<1>2. op \in Operations
  BY <1>1, HeadTailSet, MessageTypes DEF Defer, NextToBrowser
<1>3. ToSet(to_browser) = ToSet(to_browser)' \cup {op}
  BY <1>1, HeadTailSet
<1>4. Carried' = Carried
  BY <1>1, <1>3 DEF Carried
<1>5. /\ OnceEach(to_browser)'
      /\ \A a \in ToSet(to_browser)' : a.callback = op.callback => a.callback = None
  BY <1>1, TailOnce DEF CarriedOnce, OnceEach
<1>6. op.callback # None
  BY <1>2, MessageTypes
<1>7. \A a, b \in pending' : a.callback = b.callback => a = b
  BY <1>1, <1>3, <1>6 DEF CarriedOnce, Apart
<1>8. /\ Apart(ToSet(to_browser), ToSet(to_plugin))'
      /\ Apart(pending, ToSet(to_plugin))'
      /\ Apart(ToSet(to_browser), pending)'
  BY <1>1, <1>3, <1>5 DEF CarriedOnce, Apart
<1>9. to_browser' \in Seq(Messages) /\ pending' \subseteq Operations
  BY <1>1, <1>2, HeadTailSet
<1> QED
  BY <1>1, <1>4, <1>5, <1>7, <1>8, <1>9 DEF CarriedOnce, Apart, OnceEach

\* The target answers an operation it kept.
LEMMA AnsweredLater ==
  ASSUME TypeOK, CarriedOnce, NEW op \in pending, Answer(op)
  PROVE  /\ Carried' = Carried
         /\ to_plugin' \in Seq(Operations) /\ pending' \subseteq Operations
         /\ CarriedOnce'
<1>1. /\ to_plugin \in Seq(Operations) /\ pending \subseteq Operations
      /\ to_plugin' = Append(to_plugin, op) /\ pending' = pending \ {op}
      /\ UNCHANGED <<to_browser, executing>>
  BY PlaceTypes DEF Answer
<1>2. ToSet(to_plugin)' = ToSet(to_plugin) \cup {op}
  BY <1>1, AppendSet
<1>3. Carried' = Carried
  BY <1>1, <1>2 DEF Carried
<1>4. OnceEach(to_plugin)'
  BY <1>1, AppendOnce DEF CarriedOnce, OnceEach, Apart
<1>5. /\ Apart(ToSet(to_browser), ToSet(to_plugin))'
      /\ Apart(pending, ToSet(to_plugin))'
      /\ Apart(ToSet(to_browser), pending)'
  BY <1>1, <1>2 DEF CarriedOnce, Apart
<1>6. to_plugin' \in Seq(Operations) /\ pending' \subseteq Operations
  BY <1>1, AppendProperties
<1> QED
  BY <1>1, <1>3, <1>4, <1>5, <1>6 DEF CarriedOnce, Apart, OnceEach

\* The browser destroys a resource, and may forget flushes.
LEMMA Destroyed ==
  ASSUME TypeOK, CarriedOnce, Destroy
  PROVE  /\ Carried' \subseteq Carried
         /\ \A op \in Carried \ Carried' :
              op.kind = "release" \/ op.resource = NextToBrowser.resource
         /\ NextToBrowser \in Carried /\ NextToBrowser.kind = "release"
         /\ to_browser' \in Seq(Messages) /\ pending' \subseteq Operations
         /\ CarriedOnce'
<1>1. /\ to_browser \in Seq(Messages) /\ to_browser # <<>>
      /\ pending \subseteq Operations
      /\ to_browser' = Tail(to_browser) /\ pending' \subseteq pending
      /\ \A op \in pending \ pending' : op.resource = NextToBrowser.resource
      /\ UNCHANGED <<to_plugin, executing>>
      /\ NextToBrowser.kind = "release" /\ NextToBrowser = Head(to_browser)
  BY PlaceTypes DEF Destroy, NextToBrowser
<1>2. ToSet(to_browser) = ToSet(to_browser)' \cup {NextToBrowser}
  BY <1>1, HeadTailSet
<1>3. OnceEach(to_browser)'
  BY <1>1, TailOnce DEF CarriedOnce, OnceEach
<1>4. /\ Carried' \subseteq Carried
      /\ \A op \in Carried \ Carried' :
           op.kind = "release" \/ op.resource = NextToBrowser.resource
      /\ NextToBrowser \in Carried
  BY <1>1, <1>2 DEF Carried
<1>5. /\ Apart(ToSet(to_browser), ToSet(to_plugin))'
      /\ Apart(pending, ToSet(to_plugin))'
      /\ Apart(ToSet(to_browser), pending)'
      /\ Apart(executing, Carried)'
  BY <1>1, <1>2, <1>4 DEF CarriedOnce, Apart
<1>6. to_browser' \in Seq(Messages) /\ pending' \subseteq Operations
  BY <1>1, HeadTailSet
<1> QED
  BY <1>1, <1>3, <1>4, <1>5, <1>6 DEF CarriedOnce, OnceEach

\* The plugin takes the next message, and may run its callback.
LEMMA Received ==
  ASSUME TypeOK, CarriedOnce, MayReceive,
         executing' \in {executing, {NextToPlugin}},
         to_plugin' = Tail(to_plugin), UNCHANGED <<to_browser, pending>>
  PROVE  /\ NextToPlugin \in Operations /\ NextToPlugin \in Carried
         /\ Carried' \subseteq Carried /\ Carried = Carried' \cup {NextToPlugin}
         /\ \A a \in Carried' : a.callback # NextToPlugin.callback
         /\ to_plugin' \in Seq(Operations)
         /\ CarriedOnce'
<1> DEFINE op == NextToPlugin
<1>1. /\ to_plugin \in Seq(Operations) /\ to_plugin # <<>>
      /\ op = Head(to_plugin) /\ executing = {}
  BY PlaceTypes DEF MayReceive, NextToPlugin
<1>2. /\ op \in Operations /\ to_plugin' \in Seq(Operations)
      /\ ToSet(to_plugin) = ToSet(to_plugin)' \cup {op}
  BY <1>1, HeadTailSet
<1>3. op.callback # None
  BY <1>2, MessageTypes
<1>4. /\ OnceEach(to_plugin)'
      /\ \A a \in ToSet(to_plugin)' : a.callback # op.callback
  BY <1>1, <1>3, TailOnce DEF CarriedOnce, OnceEach
<1>5. /\ op \in Carried /\ Carried' \subseteq Carried
      /\ Carried = Carried' \cup {op}
  BY <1>2 DEF Carried
<1>6. \A a \in ToSet(to_browser) \cup pending : a.callback # op.callback
  BY <1>2, <1>3 DEF CarriedOnce, Apart
<1>7. \A a \in Carried' : a.callback # op.callback
  BY <1>4, <1>6 DEF Carried
<1>8. /\ Apart(ToSet(to_browser), ToSet(to_plugin))'
      /\ Apart(pending, ToSet(to_plugin))'
      /\ Apart(ToSet(to_browser), pending)'
  BY <1>2 DEF CarriedOnce, Apart
<1>9. Apart(executing, Carried)'
  BY <1>1, <1>7 DEF Apart
<1> QED
  BY <1>2, <1>4, <1>5, <1>7, <1>8, <1>9 DEF CarriedOnce, OnceEach

----------------------------------------------------------------------------
(* The two properties, over Carried. *)

\* An operation that reads or flushes resource r.
IsOwn(op, r) == op.kind \in {"read", "flush"} /\ op.resource = r

Ids ==
  /\ \A op \in Carried \cup executing : op.kind = "request" =>
       op.id \in DOMAIN callback_map /\ callback_map[op.id] = op.callback
  /\ \A op \in executing, other \in Carried :
       op.kind = "request" /\ other.kind = "request" => other.id # op.id

NoOwn(r) == \A op \in Carried : ~IsOwn(op, r)
OneOwn(r) ==
  \E op \in Carried :
    /\ IsOwn(op, r) /\ op.callback = current[r]
    /\ \A other \in Carried : IsOwn(other, r) => other = op

Owns == \A r \in tracked : IF current[r] = None THEN NoOwn(r) ELSE OneOwn(r)

LEMMA IdsForm == IdIsOfItsCallback <=> Ids
  BY DEF IdIsOfItsCallback, Ids, InFlight, Carried

LEMMA OwnsForm == CurrentOperationIsCarried <=> Owns
<1> DEFINE ops(r) == {op \in InFlight("read") \cup InFlight("flush") : op.resource = r}
<1>1. ASSUME NEW r
      PROVE  \A op : op \in ops(r) <=> op \in Carried /\ IsOwn(op, r)
  BY DEF IsOwn, InFlight, Carried
<1>2. ASSUME NEW r
      PROVE  ops(r) = {} <=> NoOwn(r)
  BY <1>1 DEF NoOwn
<1>3. ASSUME NEW r
      PROVE  (\E op \in ops(r) : ops(r) = {op} /\ op.callback = current[r]) <=> OneOwn(r)
  BY <1>1 DEF OneOwn
<1> HIDE DEF ops
<1>4. CurrentOperationIsCarried <=>
        \A r \in tracked :
          IF current[r] = None THEN ops(r) = {}
          ELSE \E op \in ops(r) : ops(r) = {op} /\ op.callback = current[r]
  BY DEF CurrentOperationIsCarried, ops
<1> QED
  BY <1>2, <1>3, <1>4 DEF Owns

\* What an action must keep: IInv with the two properties over Carried.
Parts ==
  /\ TypeOK /\ CarriedOnce /\ MessagesAreOfResources
  /\ Ids /\ Owns

LEMMA PartsForm == IInv <=> Parts
  BY IdsForm, OwnsForm DEF IInv, Parts

LEMMA PartsFormPrimed == IInv' <=> Parts'
  BY PartsForm, PTL

LEMMA InitInv == Init => IInv
<1> SUFFICES ASSUME Init
             PROVE  Parts
  BY PartsForm
<1>1. Carried = {} /\ executing = {}
  BY DEF Init, Carried, ToSet
<1>2. TypeOK
  <2>1. 1 % IdCount \in 0 .. IdCount - 1
    BY ConstantsOK, SMT DEF ConstantsOK
  <2>2. DOMAIN callback_map = {}
    BY DEF Init
  <2> QED
    BY <2>1, <2>2, ConstantsOK DEF Init, TypeOK, Id, None, ConstantsOK
<1>3. CarriedOnce
  BY <1>1 DEF Init, CarriedOnce, OnceEach, Apart, ToSet
<1> QED
  BY <1>1, <1>2, <1>3 DEF Init, Parts, MessagesAreOfResources, Ids, Owns

----------------------------------------------------------------------------
(* Each action keeps the invariant. *)

LEMMA CreateKeeps ==
  ASSUME Parts, NEW r \in Object, Create(r)
  PROVE  Parts'
<1>1. Carried' = Carried /\ UNCHANGED <<executing, callback_map, current, handed>>
  BY DEF Create, Carried
<1>2. TypeOK'
  BY DEF Parts, TypeOK, Create
<1>3. CarriedOnce'
  BY <1>1 DEF Parts, CarriedOnce, Create, OnceEach, Apart
<1>4. MessagesAreOfResources' /\ Ids'
  BY <1>1 DEF Parts, MessagesAreOfResources, Ids, Create
<1>5. NoOwn(r) /\ current[r] = None
  BY DEF Parts, TypeOK, MessagesAreOfResources, NoOwn, IsOwn, Create
<1>6. Owns'
  BY <1>1, <1>5 DEF Parts, Owns, NoOwn, OneOwn, Create
<1> QED
  BY <1>2, <1>3, <1>4, <1>6 DEF Parts

LEMMA RequestKeeps ==
  ASSUME Parts, NEW l \in Loader, Request(l)
  PROVE  Parts'
<1> DEFINE op == Operation("request", l, NextFreeId, handed + 1)
<1>1. /\ NextFreeId \in Id /\ NextFreeId \notin DOMAIN callback_map
      /\ handed + 1 \in 1 .. MaxCallbacks /\ handed' = handed + 1 /\ handed \in Nat
  BY NextFreeIdIsFree, ConstantsOK DEF Request, HandOver, Parts, TypeOK, ConstantsOK
<1>2. op \in Operations /\ op \in Messages
  BY <1>1 DEF Operation, Operations, Messages, Callback
<1>3. /\ Carried' = Carried \cup {op} /\ CarriedOnce'
      /\ to_browser' \in Seq(Operations \cup ReleaseMessages)
  <2>1. /\ op.callback = handed + 1
        /\ to_browser' = Append(to_browser, op)
        /\ UNCHANGED <<pending, to_plugin, executing>>
    BY <1>1 DEF Operation, Request
  <2> QED  BY <1>2, <2>1, Sent DEF Parts, Messages
<1>4. /\ DOMAIN callback_map' = DOMAIN callback_map \cup {NextFreeId}
      /\ callback_map'[NextFreeId] = handed + 1
      /\ \A i \in DOMAIN callback_map : callback_map'[i] = callback_map[i]
  BY <1>1 DEF Request
<1>5. next_callback_id' \in Id
  <2>1. ASSUME NEW k \in Nat
        PROVE  k % IdCount \in 0 .. IdCount - 1
    BY ConstantsOK, SMT DEF ConstantsOK
  <2>2. NextFreeId + 1 \in Nat
    BY <1>1 DEF Id
  <2> QED  BY <2>1, <2>2 DEF Request, Id
<1>6. TypeOK'
  BY <1>1, <1>3, <1>4, <1>5 DEF Parts, TypeOK, Request
<1>7. MessagesAreOfResources'
  BY <1>1, <1>3, PlaceTypes, MessageTypes
     DEF Parts, MessagesAreOfResources, Request, Operation
<1>8. Ids'
  BY <1>1, <1>3, <1>4 DEF Parts, Ids, Request, Operation
<1>9. ASSUME NEW r PROVE ~IsOwn(op, r)
  BY DEF IsOwn, Operation
<1>10. Owns'
  BY <1>3, <1>9 DEF Parts, Owns, NoOwn, OneOwn, Request
<1> QED
  BY <1>3, <1>6, <1>7, <1>8, <1>10 DEF Parts

LEMMA StartKeeps ==
  ASSUME Parts, NEW kind, NEW r \in Object,
         (kind = "read" /\ r \in Loader) \/ (kind = "flush" /\ r \in Graphics),
         Start(kind, r)
  PROVE  Parts'
<1> DEFINE op == Operation(kind, r, NoId, handed + 1)
<1>1. handed + 1 \in 1 .. MaxCallbacks /\ handed' = handed + 1 /\ handed \in Nat
  BY ConstantsOK DEF Start, HandOver, Parts, TypeOK, ConstantsOK
<1>2. op \in Operations /\ op \in Messages
  BY <1>1 DEF Operation, Operations, Messages, Callback
<1>3. /\ Carried' = Carried \cup {op} /\ CarriedOnce'
      /\ to_browser' \in Seq(Operations \cup ReleaseMessages)
  <2>1. /\ op.callback = handed + 1
        /\ to_browser' = Append(to_browser, op)
        /\ UNCHANGED <<pending, to_plugin, executing>>
    BY <1>1 DEF Operation, Start
  <2> QED  BY <1>2, <2>1, Sent DEF Parts, Messages
<1>4. /\ current \in [Object -> 0 .. handed]
      /\ current' = [current EXCEPT ![r] = handed + 1]
      /\ r \in tracked /\ current[r] = None
  BY <1>1 DEF Parts, TypeOK, Start, MayStart
<1>5. TypeOK'
  BY <1>1, <1>3, <1>4 DEF Parts, TypeOK, Start
<1>6. MessagesAreOfResources'
  BY <1>1, <1>3, <1>4, PlaceTypes, MessageTypes
     DEF Parts, MessagesAreOfResources, Start, Operation
<1>7. op.kind # "request" /\ op.resource = r /\ op.callback = handed + 1
  BY DEF Operation
<1>8. Ids'
  BY <1>3, <1>7 DEF Parts, Ids, Start
<1>9. ASSUME NEW s \in tracked
      PROVE  IF current'[s] = None THEN NoOwn(s)' ELSE OneOwn(s)'
  <2>1. CASE s = r
    <3>1. current'[s] = handed + 1 /\ current'[s] # None
      BY <1>1, <1>4, <2>1 DEF None
    <3>2. IsOwn(op, r)
      BY DEF IsOwn, Operation
    <3>3. NoOwn(r)
      BY <1>4 DEF Parts, Owns
    <3> QED  BY <1>3, <1>7, <2>1, <3>1, <3>2, <3>3 DEF OneOwn, NoOwn
  <2>2. CASE s # r
    <3>1. current'[s] = current[s] /\ ~IsOwn(op, s)
      BY <1>4, <1>7, <2>2 DEF IsOwn, Parts, TypeOK
    <3> QED  BY <1>3, <3>1 DEF Parts, Owns, OneOwn, NoOwn
  <2> QED  BY <2>1, <2>2
<1>10. Owns'
  BY <1>9 DEF Owns, Start
<1> QED
  BY <1>3, <1>5, <1>6, <1>8, <1>10 DEF Parts

LEMMA ReleaseKeeps ==
  ASSUME Parts, NEW r \in Object, Release(r)
  PROVE  Parts'
<1> DEFINE op == Operation("release", r, NoId, None)
<1>1. op \in Messages
  BY DEF Operation, ReleaseMessages, Messages
<1>2. /\ Carried' = Carried \cup {op} /\ CarriedOnce'
      /\ to_browser' \in Seq(Operations \cup ReleaseMessages)
  <2>1. /\ op.callback = None
        /\ to_browser' = Append(to_browser, op)
        /\ UNCHANGED <<pending, to_plugin, executing>>
    BY DEF Operation, Release
  <2> QED  BY <1>1, <2>1, Sent DEF Parts, Messages
<1>3. /\ current \in [Object -> 0 .. handed]
      /\ current' = [current EXCEPT ![r] = None]
      /\ tracked' = tracked \ {r} /\ released' = released \cup {r} /\ r \in tracked
      /\ UNCHANGED <<handed, executing, callback_map>>
      /\ handed \in Nat
  BY ConstantsOK DEF Parts, TypeOK, Release, ConstantsOK
<1>4. TypeOK'
  <2>1. current' \in [Object -> 0 .. handed]
    BY <1>3 DEF None
  <2> QED  BY <1>2, <1>3, <2>1 DEF Parts, TypeOK, Release
<1>5. op.kind = "release" /\ op.resource = r /\ op.callback = None
  BY DEF Operation
<1>6. MessagesAreOfResources'
  BY <1>2, <1>3, <1>5 DEF Parts, MessagesAreOfResources, None
<1>7. Ids'
  BY <1>2, <1>3, <1>5 DEF Parts, Ids
<1>8. ASSUME NEW s \in tracked'
      PROVE  IF current'[s] = None THEN NoOwn(s)' ELSE OneOwn(s)'
  <2>1. s \in tracked /\ s # r /\ current'[s] = current[s] /\ ~IsOwn(op, s)
    BY <1>3, <1>5 DEF IsOwn, Parts, TypeOK
  <2> QED  BY <1>2, <2>1 DEF Parts, Owns, OneOwn, NoOwn
<1>9. Owns'
  BY <1>8 DEF Owns
<1> QED
  BY <1>2, <1>4, <1>6, <1>7, <1>9 DEF Parts

\* Nothing but the place of a message changes.
LEMMA MovedKeeps ==
  ASSUME Parts, Carried' = Carried, CarriedOnce', TypeOK',
         UNCHANGED <<tracked, released, callback_map, current, executing, handed>>
  PROVE  Parts'
<1>1. MessagesAreOfResources' /\ Ids'
  BY DEF Parts, MessagesAreOfResources, Ids
<1>2. Owns'
  BY DEF Parts, Owns, NoOwn, OneOwn
<1> QED
  BY <1>1, <1>2 DEF Parts

LEMMA AnswersKeep ==
  ASSUME Parts, FinishAtOnce \/ Defer \/ \E op \in pending : Answer(op)
  PROVE  Parts'
<1>1. CASE FinishAtOnce
  <2>1. TypeOK'
    BY <1>1, AnsweredAtOnce DEF Parts, TypeOK, FinishAtOnce, Messages
  <2> QED  BY <1>1, <2>1, AnsweredAtOnce, MovedKeeps DEF Parts, FinishAtOnce
<1>2. CASE Defer
  <2>1. TypeOK'
    BY <1>2, Deferred DEF Parts, TypeOK, Defer, Messages
  <2> QED  BY <1>2, <2>1, Deferred, MovedKeeps DEF Parts, Defer
<1>3. ASSUME NEW op \in pending, Answer(op)
      PROVE  Parts'
  <2>1. TypeOK'
    BY <1>3, AnsweredLater DEF Parts, TypeOK, Answer
  <2> QED  BY <1>3, <2>1, AnsweredLater, MovedKeeps DEF Parts, Answer
<1> QED
  BY <1>1, <1>2, <1>3

LEMMA DestroyKeeps ==
  ASSUME Parts, Destroy
  PROVE  Parts'
<1> DEFINE r == NextToBrowser.resource
<1>1. /\ Carried' \subseteq Carried
      /\ \A op \in Carried \ Carried' : op.kind = "release" \/ op.resource = r
      /\ NextToBrowser \in Carried /\ NextToBrowser.kind = "release"
      /\ to_browser' \in Seq(Messages) /\ pending' \subseteq Operations
      /\ CarriedOnce'
  BY Destroyed DEF Parts
<1>2. r \in released /\ r \notin tracked
  BY <1>1 DEF Parts, MessagesAreOfResources, TypeOK
<1>3. TypeOK'
  BY <1>1, <1>2 DEF Parts, TypeOK, Destroy, Messages
<1>4. MessagesAreOfResources' /\ Ids'
  BY <1>1 DEF Parts, MessagesAreOfResources, Ids, Destroy
<1>5. ASSUME NEW s \in tracked, NEW op \in Carried, IsOwn(op, s)
      PROVE  op \in Carried'
  BY <1>1, <1>2, <1>5 DEF IsOwn
<1>6. Owns'
  BY <1>1, <1>5 DEF Parts, Owns, NoOwn, OneOwn, Destroy
<1> QED
  BY <1>1, <1>3, <1>4, <1>6 DEF Parts

LEMMA RunRequestKeeps ==
  ASSUME Parts, RunRequestCallback
  PROVE  Parts'
<1> DEFINE op == NextToPlugin
<1>1. /\ op \in Operations /\ op \in Carried
      /\ Carried' \subseteq Carried /\ Carried = Carried' \cup {op}
      /\ \A a \in Carried' : a.callback # op.callback
      /\ to_plugin' \in Seq(Operations)
      /\ CarriedOnce'
  BY Received DEF Parts, RunRequestCallback
<1>2. /\ op.kind = "request" /\ executing' = {op}
      /\ UNCHANGED <<tracked, released, callback_map, current, handed>>
  BY DEF RunRequestCallback
<1>3. TypeOK'
  BY <1>1 DEF Parts, TypeOK, RunRequestCallback, Run
<1>4. MessagesAreOfResources'
  BY <1>1, <1>2 DEF Parts, MessagesAreOfResources
<1>5. Ids'
  BY <1>1, <1>2 DEF Parts, Ids
<1>6. ASSUME NEW r PROVE ~IsOwn(op, r)
  BY <1>2 DEF IsOwn
<1>7. Owns'
  BY <1>1, <1>2, <1>6 DEF Parts, Owns, NoOwn, OneOwn
<1> QED
  BY <1>1, <1>3, <1>4, <1>5, <1>7 DEF Parts

LEMMA RunOwnKeeps ==
  ASSUME Parts, RunOwnCallback
  PROVE  Parts'
<1>0. PICK op, r : op = NextToPlugin /\ r = op.resource
  OBVIOUS
<1>1. /\ op \in Operations /\ op \in Carried
      /\ Carried' \subseteq Carried /\ Carried = Carried' \cup {op}
      /\ \A a \in Carried' : a.callback # op.callback
      /\ to_plugin' \in Seq(Operations)
      /\ CarriedOnce'
  BY <1>0, Received DEF Parts, RunOwnCallback
<1>2. /\ op.kind # "request" /\ executing' = {op}
      /\ r \in tracked /\ current[r] # None
      /\ current' = [current EXCEPT ![r] = None]
      /\ UNCHANGED <<tracked, released, callback_map, handed>>
      /\ current \in [Object -> 0 .. handed] /\ r \in Object /\ handed \in Nat
  BY <1>0, ConstantsOK DEF RunOwnCallback, Parts, TypeOK, ConstantsOK
<1>3. TypeOK'
  <2>1. current' \in [Object -> 0 .. handed]
    BY <1>2 DEF None
  <2>2. ran' \subseteq 1 .. handed
    <3>1. current[r] \in 1 .. handed
      BY <1>2 DEF None
    <3>2. ran' = ran \cup {current[r]} /\ ran \subseteq 1 .. handed
      BY <1>0 DEF Parts, TypeOK, RunOwnCallback, Run
    <3> QED  BY <3>1, <3>2
  <2> QED  BY <1>1, <1>2, <2>1, <2>2 DEF Parts, TypeOK, RunOwnCallback
<1>4. MessagesAreOfResources'
  BY <1>1, <1>2 DEF Parts, MessagesAreOfResources
<1>5. Ids'
  BY <1>1, <1>2 DEF Parts, Ids
<1>6. IsOwn(op, r)
  BY <1>0, <1>1, <1>2 DEF IsOwn, Operations
<1>7. NoOwn(r)'
  <2>1. OneOwn(r)
    BY <1>2 DEF Parts, Owns
  <2>2. \A a \in Carried : IsOwn(a, r) => a = op
    BY <1>1, <1>6, <2>1 DEF OneOwn
  <2> QED  BY <1>1, <2>2 DEF NoOwn
<1>8. ASSUME NEW s \in tracked, s # r
      PROVE  IF current'[s] = None THEN NoOwn(s)' ELSE OneOwn(s)'
  <2>1. current'[s] = current[s] /\ ~IsOwn(op, s)
    BY <1>0, <1>2, <1>8 DEF IsOwn, Parts, TypeOK
  <2> QED  BY <1>1, <2>1 DEF Parts, Owns, OneOwn, NoOwn
<1>9. Owns'
  <2>1. current'[r] = None /\ tracked' = tracked
    BY <1>2
  <2> QED  BY <1>7, <1>8, <2>1 DEF Owns
<1> QED
  BY <1>1, <1>3, <1>4, <1>5, <1>9 DEF Parts

LEMMA DropKeeps ==
  ASSUME Parts, DropAnswer
  PROVE  Parts'
<1> DEFINE op == NextToPlugin
<1>1. /\ Carried' \subseteq Carried /\ Carried = Carried' \cup {op}
      /\ to_plugin' \in Seq(Operations)
      /\ CarriedOnce'
  BY Received DEF Parts, DropAnswer
<1>2. /\ op.resource \notin tracked
      /\ UNCHANGED <<tracked, released, callback_map, current, handed, executing>>
  BY DEF DropAnswer
<1>3. TypeOK'
  BY <1>1 DEF Parts, TypeOK, DropAnswer
<1>4. MessagesAreOfResources' /\ Ids'
  BY <1>1, <1>2 DEF Parts, MessagesAreOfResources, Ids
<1>5. ASSUME NEW r \in tracked PROVE ~IsOwn(op, r)
  BY <1>2 DEF IsOwn
<1>6. Owns'
  BY <1>1, <1>2, <1>5 DEF Parts, Owns, NoOwn, OneOwn
<1> QED
  BY <1>1, <1>3, <1>4, <1>6 DEF Parts

LEMMA EndCallbackKeeps ==
  ASSUME Parts, EndCallback
  PROVE  Parts'
<1>1. PICK op \in executing :
        /\ executing' = {}
        /\ callback_map' = [i \in DOMAIN callback_map \ {op.id} |-> callback_map[i]]
        /\ UNCHANGED <<tracked, released, next_callback_id, current, to_browser,
                       to_plugin, alive, pending, handed, ran>>
  BY DEF EndCallback
<1>2. Carried' = Carried
  BY <1>1 DEF Carried
<1>3. TypeOK'
  BY <1>1 DEF Parts, TypeOK
<1>4. CarriedOnce'
  BY <1>1, <1>2 DEF Parts, CarriedOnce, OnceEach, Apart
<1>5. MessagesAreOfResources'
  BY <1>1, <1>2 DEF Parts, MessagesAreOfResources
<1>6. Ids'
  <2>1. SUFFICES ASSUME NEW other \in Carried, other.kind = "request"
                 PROVE  /\ other.id \in DOMAIN callback_map'
                        /\ callback_map'[other.id] = other.callback
    BY <1>1, <1>2 DEF Ids
  <2>2. other.id \in DOMAIN callback_map /\ callback_map[other.id] = other.callback
    BY <2>1 DEF Parts, Ids
  <2>3. other.id # op.id
    <3>1. CASE op.kind = "request"
      BY <2>1, <3>1 DEF Parts, Ids
    <3>2. CASE op.kind # "request"
      <4>1. op.id = NoId
        BY <3>2, PlaceTypes DEF Parts, Operations
      <4>2. other.id \in Id
        BY <2>2 DEF Parts, TypeOK
      <4> QED  BY <4>1, <4>2, ConstantsOK DEF NoId, Id, ConstantsOK
    <3> QED  BY <3>1, <3>2
  <2> QED  BY <1>1, <2>2, <2>3
<1>7. Owns'
  BY <1>1, <1>2 DEF Parts, Owns, NoOwn, OneOwn
<1> QED
  BY <1>3, <1>4, <1>5, <1>6, <1>7 DEF Parts

LEMMA NextInv == IInv /\ [Next]_vars => IInv'
<1> SUFFICES ASSUME Parts, [Next]_vars
             PROVE  Parts'
  BY PartsForm, PartsFormPrimed
<1>1. ASSUME NEW r \in Object, Create(r) PROVE Parts'
  BY <1>1, CreateKeeps
<1>2. ASSUME NEW r \in Object, Release(r) PROVE Parts'
  BY <1>2, ReleaseKeeps
<1>3. ASSUME NEW l \in Loader, Request(l) PROVE Parts'
  BY <1>3, RequestKeeps
<1>4. ASSUME NEW r \in Object, ReadResponseBody(r) \/ Flush(r) PROVE Parts'
  <2>1. ASSUME r \in Loader, Start("read", r) PROVE Parts'
    BY <2>1, StartKeeps
  <2>2. ASSUME r \in Graphics, Start("flush", r) PROVE Parts'
    BY <2>2, StartKeeps
  <2> QED  BY <1>4, <2>1, <2>2 DEF ReadResponseBody, Flush
<1>5. CASE FinishAtOnce \/ Defer \/ \E op \in pending : Answer(op)
  BY <1>5, AnswersKeep
<1>6. CASE Destroy
  BY <1>6, DestroyKeeps
<1>7. CASE RunRequestCallback
  BY <1>7, RunRequestKeeps
<1>8. CASE RunOwnCallback
  BY <1>8, RunOwnKeeps
<1>9. CASE DropAnswer
  BY <1>9, DropKeeps
<1>10. CASE EndCallback
  BY <1>10, EndCallbackKeeps
<1>11. CASE UNCHANGED vars
  <2>1. Carried' = Carried
    BY <1>11 DEF vars, Carried
  <2>2. TypeOK' /\ CarriedOnce'
    BY <1>11, <2>1 DEF vars, Parts, TypeOK, CarriedOnce, OnceEach, Apart
  <2>3. UNCHANGED <<tracked, released, callback_map, current, executing, handed>>
    BY <1>11 DEF vars
  <2> QED  BY <2>1, <2>2, <2>3, MovedKeeps
<1> QED
  BY <1>1, <1>2, <1>3, <1>4, <1>5, <1>6, <1>7, <1>8, <1>9, <1>10, <1>11
     DEF Next, PluginStep, BrowserDispatch, PluginReceive

\* All parts of the invariant hold in every state.
LEMMA Invariance == Spec => []IInv
  BY InitInv, NextInv, PTL DEF Spec

\* Callbacks, ids and messages keep their types; the browser never destroys a
\* resource that the plugin still tracks.
THEOREM TypeCorrect == Spec => []TypeOK
<1>1. IInv => TypeOK
  BY DEF IInv
<1> QED  BY Invariance, <1>1, PTL

\* The id an ExecuteCallback message brings back is that of the callback it was
\* taken for, however the ids wrap around (CallbackTracker).
THEOREM IdsAreOfTheirCallbacks == Spec => []IdIsOfItsCallback
<1>1. IInv => IdIsOfItsCallback
  BY DEF IInv
<1> QED  BY Invariance, <1>1, PTL

\* An answer to a read or a flush finds the callback it was sent for, as long as
\* the plugin tracks the resource (current_read_callback_, current_flush_callback_).
THEOREM CurrentOperationsAreCarried == Spec => []CurrentOperationIsCarried
<1>1. IInv => CurrentOperationIsCarried
  BY DEF IInv
<1> QED  BY Invariance, <1>1, PTL

=============================================================================
