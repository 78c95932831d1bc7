------------------------ MODULE PluginReferencesProofs ------------------------
(***************************************************************************)
(* The safety properties of PluginReferences, for any sets of objects and  *)
(* resources and any bounds.  They are one induction: that no count in the *)
(* browser is negative follows from RefsAddUp, which needs                 *)
(* TrackerCoversOwned where the plugin releases a document's loader, and   *)
(* the three need the types.                                               *)
(***************************************************************************)
EXTENDS PluginReferences, TLAPS

\* What does not happen to a resource: no AddRef message, no reply to the browser,
\* no exception, no message that is not handled, no argument but a loader.
ResourcesAreSimple ==
  \A r \in Resource :
    /\ adds[r] = 0 /\ kept[r] = 0 /\ discarded[r] = 0 /\ unheard[r] = 0
    /\ lent[r] > 0 => r \in borrowed

\* What the browser's callers own is part of what the browser holds.
KeptIsHeld == \A h \in Handle : kept[h] <= browser[h]

IInv ==
  /\ TypeOK
  /\ RefsAddUp
  /\ TrackerCoversOwned
  /\ ResourcesAreSimple
  /\ KeptIsHeld

\* No handle is both an object and a resource.
LEMMA Kinds ==
  /\ \A o \in Object : o \in Handle /\ o \notin Resource
  /\ \A r \in Resource : r \in Handle /\ r \notin Object
  BY ConstantsOK DEF ConstantsOK, Handle

\* The counts of a handle are numbers.
LEMMA Counts ==
  ASSUME TypeOK, NEW h \in Handle
  PROVE  /\ ref_count[h] \in Nat /\ owned[h] \in Nat /\ adds[h] \in Nat
         /\ releases[h] \in Nat /\ passing[h] \in Nat /\ browser[h] \in Nat
         /\ kept[h] \in Nat /\ discarded[h] \in Nat /\ unheard[h] \in Int
  BY DEF TypeOK

\* The last reference becomes a message.
LEMMA ReleaseRefMoves ==
  ASSUME TypeOK, NEW h \in Handle, ReleaseRef(h)
  PROVE  /\ ref_count'[h] \in Nat /\ releases'[h] \in Nat
         /\ One(Tracked(h))' + releases'[h] = One(Tracked(h)) + releases[h]
<1>1. ref_count'[h] = IF ref_count[h] = 0 THEN 0 ELSE ref_count[h] - 1
  BY DEF TypeOK, ReleaseRef
<1>2. releases'[h] = releases[h] + One(ref_count[h] = 1)
  BY DEF TypeOK, ReleaseRef
<1> QED  BY <1>1, <1>2, Counts DEF One, Tracked

\* A reference that is passed is the one that stands for the handle, or spare.
LEMMA TakeRefMoves ==
  ASSUME TypeOK, NEW h \in Handle, TakeRef(h)
  PROVE  /\ ref_count'[h] \in Nat /\ releases'[h] \in Nat
         /\ One(Tracked(h))' + releases'[h] = One(Tracked(h)) + releases[h] + 1
<1>1. ref_count'[h] = ref_count[h] + 1
  BY DEF TypeOK, TakeRef, Inc
<1>2. releases'[h] = releases[h] + One(ref_count[h] > 0)
  BY DEF TypeOK, TakeRef
<1> QED  BY <1>1, <1>2, Counts DEF One, Tracked

\* The initial state satisfies the invariant: all counts are 0.
LEMMA InitInv == Init => IInv
  BY DEF Init, IInv, TypeOK, RefsAddUp, AddsUp, TrackerCoversOwned,
         ResourcesAreSimple, KeptIsHeld, Handle, Tracked, One

\* Every step of the plugin, of the browser and of the channel keeps the invariant.
\* Where the counts of one handle change, the equation of the others stays.
LEMMA NextInv == IInv /\ [Next]_vars => IInv'
<1>1. ASSUME IInv, NEW o \in Object, AddRefVar(o)
      PROVE  IInv'
  <2>1. TypeOK'
    BY <1>1 DEF IInv, TypeOK, One, Handle, AddRefVar, Inc, browserVars
  <2>2. ASSUME NEW k \in Handle PROVE AddsUp(k)'
    <3>1. CASE k = o
      <4>1. AddsUp(o)
        BY <1>1, Kinds DEF IInv, RefsAddUp
      <4>2. /\ ref_count'[o] = ref_count[o] + 1
            /\ adds'[o] = adds[o] + One(ref_count[o] = 0)
        BY <1>1, Kinds DEF IInv, TypeOK, AddRefVar, Inc
      <4>3. UNCHANGED <<borrowed, releases, passing, browser, kept, discarded, unheard>>
        BY <1>1 DEF AddRefVar, browserVars
      <4>4. o \notin borrowed
        BY <1>1, Kinds DEF IInv, TypeOK
      <4> QED
        BY <1>1, <3>1, <4>1, <4>2, <4>3, <4>4, Kinds, Counts
           DEF IInv, AddsUp, One, Tracked
    <3>2. CASE k # o
      BY <1>1, <3>2 DEF IInv, TypeOK, RefsAddUp, AddsUp, Tracked, One, Handle,
         AddRefVar, Inc, browserVars
    <3> QED  BY <3>1, <3>2
  <2>3. TrackerCoversOwned'
    BY <1>1, Kinds DEF IInv, TypeOK, TrackerCoversOwned, One, Handle, AddRefVar,
       Inc, browserVars
  <2>4. ResourcesAreSimple'
    BY <1>1, Kinds DEF IInv, TypeOK, ResourcesAreSimple, One, Handle, AddRefVar,
       Inc, browserVars
  <2>5. KeptIsHeld'
    BY <1>1 DEF IInv, KeptIsHeld, AddRefVar, browserVars
  <2> QED
    BY <2>1, <2>2, <2>3, <2>4, <2>5 DEF IInv, RefsAddUp
<1>2. ASSUME IInv, NEW o \in Object, ReleaseVar(o)
      PROVE  IInv'
  <2>1. TypeOK'
    BY <1>2 DEF IInv, TypeOK, One, Handle, ReleaseVar, ReleaseRef, Dec,
       browserVars
  <2>2. ASSUME NEW k \in Handle PROVE AddsUp(k)'
    <3>1. CASE k = o
      <4>1. AddsUp(o)
        BY <1>2, Kinds DEF IInv, RefsAddUp
      <4>2. /\ ref_count'[o] \in Nat /\ releases'[o] \in Nat
            /\ One(Tracked(o))' + releases'[o] = One(Tracked(o)) + releases[o]
        BY <1>2, Kinds, ReleaseRefMoves DEF IInv, ReleaseVar
      <4>3. UNCHANGED <<borrowed, adds, passing, browser, kept, discarded, unheard>>
        BY <1>2 DEF ReleaseVar, browserVars
      <4>4. o \notin borrowed
        BY <1>2, Kinds DEF IInv, TypeOK
      <4> QED
        BY <1>2, <3>1, <4>1, <4>2, <4>3, <4>4, Kinds, Counts
           DEF IInv, AddsUp, One, Tracked
    <3>2. CASE k # o
      BY <1>2, <3>2 DEF IInv, TypeOK, RefsAddUp, AddsUp, Tracked, One, Handle,
         ReleaseVar, ReleaseRef, Dec, browserVars
    <3> QED  BY <3>1, <3>2
  <2>3. TrackerCoversOwned'
    BY <1>2, Kinds DEF IInv, TypeOK, TrackerCoversOwned, One, Handle,
       ReleaseVar, ReleaseRef, Dec, browserVars
  <2>4. ResourcesAreSimple' /\ KeptIsHeld'
    BY <1>2 DEF IInv, ResourcesAreSimple, KeptIsHeld, ReleaseVar, ReleaseRef,
       browserVars
  <2> QED
    BY <2>1, <2>2, <2>3, <2>4 DEF IInv, RefsAddUp
<1>3. ASSUME IInv, NEW o \in Object, ReceiveObject(o)
      PROVE  IInv'
  <2>1. TypeOK'
    BY <1>3 DEF IInv, TypeOK, One, Handle, ReceiveObject, TakeRef, Inc, Dec,
       browserVars
  <2>2. ASSUME NEW k \in Handle PROVE AddsUp(k)'
    <3>1. CASE k = o
      <4>1. AddsUp(o)
        BY <1>3, Kinds DEF IInv, RefsAddUp
      <4>2. One(Tracked(o))' + releases'[o] = One(Tracked(o)) + releases[o] + 1
        BY <1>3, Kinds, TakeRefMoves DEF IInv, ReceiveObject
      <4>3. passing'[o] = passing[o] - 1
        BY <1>3, Kinds DEF IInv, TypeOK, ReceiveObject, Dec
      <4>4. UNCHANGED <<borrowed, adds, browser, kept, discarded, unheard>>
        BY <1>3 DEF ReceiveObject, browserVars
      <4>5. ref_count'[o] \in Nat /\ releases'[o] \in Nat
        BY <1>3, Kinds, TakeRefMoves DEF IInv, ReceiveObject
      <4>6. o \notin borrowed
        BY <1>3, Kinds DEF IInv, TypeOK
      <4> QED
        BY <1>3, <3>1, <4>1, <4>2, <4>3, <4>4, <4>5, <4>6, Kinds, Counts
           DEF IInv, AddsUp, One, Tracked
    <3>2. CASE k # o
      BY <1>3, <3>2 DEF IInv, TypeOK, RefsAddUp, AddsUp, Tracked, One, Handle,
         ReceiveObject, TakeRef, Inc, Dec, browserVars
    <3> QED  BY <3>1, <3>2
  <2>3. TrackerCoversOwned'
    BY <1>3, Kinds DEF IInv, TypeOK, TrackerCoversOwned, One, Handle,
       ReceiveObject, TakeRef, Inc, Dec, browserVars
  <2>4. ResourcesAreSimple' /\ KeptIsHeld'
    BY <1>3 DEF IInv, ResourcesAreSimple, KeptIsHeld, ReceiveObject, TakeRef,
       browserVars
  <2> QED
    BY <2>1, <2>2, <2>3, <2>4 DEF IInv, RefsAddUp
<1>4. ASSUME IInv, NEW o \in Object, DiscardException(o)
      PROVE  IInv'
  <2>1. TypeOK'
    BY <1>4 DEF IInv, TypeOK, One, Handle, DiscardException, ReleaseRef, Inc,
       Dec, browserVars
  <2>2. ASSUME NEW k \in Handle PROVE AddsUp(k)'
    <3>1. CASE k = o
      <4>1. AddsUp(o)
        BY <1>4, Kinds DEF IInv, RefsAddUp
      <4>2. /\ ref_count'[o] \in Nat /\ releases'[o] \in Nat
            /\ One(Tracked(o))' + releases'[o] = One(Tracked(o)) + releases[o]
        BY <1>4, Kinds, ReleaseRefMoves DEF IInv, DiscardException
      <4>3. UNCHANGED <<borrowed, adds, browser, kept, unheard>>
        BY <1>4 DEF DiscardException, browserVars
      <4>4. o \notin borrowed
        BY <1>4, Kinds DEF IInv, TypeOK
      <4>5. passing'[o] = passing[o] - 1 /\ discarded'[o] = discarded[o] + 1
        BY <1>4, Kinds DEF IInv, TypeOK, DiscardException, Inc, Dec
      <4> QED
        BY <1>4, <3>1, <4>1, <4>2, <4>3, <4>4, <4>5, Kinds, Counts
           DEF IInv, AddsUp, One, Tracked
    <3>2. CASE k # o
      BY <1>4, <3>2 DEF IInv, TypeOK, RefsAddUp, AddsUp, Tracked, One, Handle,
         DiscardException, ReleaseRef, Inc, Dec, browserVars
    <3> QED  BY <3>1, <3>2
  <2>3. TrackerCoversOwned'
    BY <1>4, Kinds DEF IInv, TypeOK, TrackerCoversOwned, One, Handle,
       DiscardException, ReleaseRef, Inc, Dec, browserVars
  <2>4. ResourcesAreSimple'
    BY <1>4, Kinds DEF IInv, TypeOK, ResourcesAreSimple, One, Handle,
       DiscardException, ReleaseRef, Inc, Dec, browserVars
  <2>5. KeptIsHeld'
    BY <1>4 DEF IInv, KeptIsHeld, DiscardException, ReleaseRef, browserVars
  <2> QED
    BY <2>1, <2>2, <2>3, <2>4, <2>5 DEF IInv, RefsAddUp
<1>5. ASSUME IInv, NEW o \in Object, HandleCall(o)
      PROVE  IInv'
  <2>1. TypeOK'
    BY <1>5 DEF IInv, TypeOK, One, Handle, HandleCall, Inc, browserVars
  <2>2. ResourcesAreSimple'
    BY <1>5, Kinds, Counts
       DEF IInv, TypeOK, ResourcesAreSimple, HandleCall, Inc, browserVars
  <2>3. RefsAddUp' /\ TrackerCoversOwned' /\ KeptIsHeld'
    BY <1>5 DEF IInv, RefsAddUp, TrackerCoversOwned, KeptIsHeld, AddsUp,
       Tracked, HandleCall, browserVars
  <2> QED
    BY <2>1, <2>2, <2>3 DEF IInv
<1>6. ASSUME IInv, NEW o \in Object, ReturnObject(o)
      PROVE  IInv'
  <2>1. TypeOK'
    BY <1>6 DEF IInv, TypeOK, One, Handle, ReturnObject, ReleaseRef, Inc, Dec,
       browserVars
  <2>2. ASSUME NEW k \in Handle PROVE AddsUp(k)'
    <3>1. CASE k = o
      <4>1. AddsUp(o)
        BY <1>6, Kinds DEF IInv, RefsAddUp
      <4>2. /\ ref_count'[o] \in Nat /\ releases'[o] \in Nat
            /\ One(Tracked(o))' + releases'[o] = One(Tracked(o)) + releases[o]
        BY <1>6, Kinds, ReleaseRefMoves DEF IInv, ReturnObject
      <4>3. UNCHANGED <<borrowed, adds, passing, browser, kept, discarded, unheard>>
        BY <1>6 DEF ReturnObject, browserVars
      <4>4. o \notin borrowed
        BY <1>6, Kinds DEF IInv, TypeOK
      <4> QED
        BY <1>6, <3>1, <4>1, <4>2, <4>3, <4>4, Kinds, Counts
           DEF IInv, AddsUp, One, Tracked
    <3>2. CASE k # o
      BY <1>6, <3>2 DEF IInv, TypeOK, RefsAddUp, AddsUp, Tracked, One, Handle,
         ReturnObject, ReleaseRef, Inc, Dec, browserVars
    <3> QED  BY <3>1, <3>2
  <2>3. TrackerCoversOwned'
    BY <1>6, Kinds DEF IInv, TypeOK, TrackerCoversOwned, One, Handle,
       ReturnObject, ReleaseRef, Inc, Dec, browserVars
  <2>4. ResourcesAreSimple' /\ KeptIsHeld'
    BY <1>6 DEF IInv, ResourcesAreSimple, KeptIsHeld, ReturnObject, ReleaseRef,
       browserVars
  <2> QED
    BY <2>1, <2>2, <2>3, <2>4 DEF IInv, RefsAddUp
<1>7. ASSUME IInv, NEW o \in Object, ReceiveReturned(o)
      PROVE  IInv'
  <2>1. TypeOK'
    BY <1>7 DEF IInv, TypeOK, One, Handle, ReceiveReturned, Inc, Dec, pluginVars
  <2>2. ASSUME NEW k \in Handle PROVE AddsUp(k)'
    <3>1. CASE k = o
      <4>1. AddsUp(o)
        BY <1>7, Kinds DEF IInv, RefsAddUp
      <4>2. browser'[o] = browser[o] + 1 /\ kept'[o] = kept[o] + 1
        BY <1>7, Kinds DEF IInv, TypeOK, ReceiveReturned, Inc, pluginVars
      <4>3. UNCHANGED <<ref_count, borrowed, adds, releases, passing, discarded, unheard>>
        BY <1>7 DEF ReceiveReturned, pluginVars
      <4> QED
        BY <1>7, <3>1, <4>1, <4>2, <4>3, Kinds, Counts DEF AddsUp, Tracked,
           One, IInv
    <3>2. CASE k # o
      BY <1>7, <3>2 DEF IInv, TypeOK, RefsAddUp, AddsUp, Tracked, One, Handle,
         ReceiveReturned, Inc, Dec, pluginVars
    <3> QED  BY <3>1, <3>2
  <2>3. ResourcesAreSimple'
    BY <1>7, Kinds DEF IInv, TypeOK, ResourcesAreSimple, One, Handle,
       ReceiveReturned, Inc, Dec, pluginVars
  <2>4. KeptIsHeld'
    BY <1>7 DEF IInv, TypeOK, KeptIsHeld, One, Handle, ReceiveReturned, Inc,
       Dec, pluginVars
  <2>5. TrackerCoversOwned'
    BY <1>7 DEF IInv, TrackerCoversOwned, ReceiveReturned, pluginVars
  <2> QED
    BY <2>1, <2>2, <2>3, <2>4, <2>5 DEF IInv, RefsAddUp
<1>8. ASSUME IInv, NEW o \in Object, DropReturned(o)
      PROVE  IInv'
  <2>1. TypeOK'
    BY <1>8 DEF IInv, TypeOK, KeptIsHeld, One, Handle, DropReturned, Dec,
       pluginVars
  <2>2. ASSUME NEW k \in Handle PROVE AddsUp(k)'
    <3>1. CASE k = o
      BY <1>8, <3>1, Kinds, Counts DEF IInv, TypeOK, RefsAddUp, AddsUp,
         Tracked, One, DropReturned, Dec, pluginVars
    <3>2. CASE k # o
      BY <1>8, <3>2 DEF IInv, TypeOK, RefsAddUp, AddsUp, Tracked, One, Handle,
         DropReturned, Dec, pluginVars
    <3> QED  BY <3>1, <3>2
  <2>3. ResourcesAreSimple'
    BY <1>8, Kinds DEF IInv, TypeOK, ResourcesAreSimple, One, Handle,
       DropReturned, Dec, pluginVars
  <2>4. KeptIsHeld'
    BY <1>8 DEF IInv, TypeOK, KeptIsHeld, One, Handle, DropReturned, Dec,
       pluginVars
  <2>5. TrackerCoversOwned'
    BY <1>8 DEF IInv, TrackerCoversOwned, DropReturned, pluginVars
  <2> QED
    BY <2>1, <2>2, <2>3, <2>4, <2>5 DEF IInv, RefsAddUp
<1>9. ASSUME IInv, NEW o \in Object, DispatchAddRefObject(o)
      PROVE  IInv'
  <2>1. TypeOK'
    BY <1>9 DEF IInv, TypeOK, One, Handle, DispatchAddRefObject, Dec, pluginVars
  <2>2. ASSUME NEW k \in Handle PROVE AddsUp(k)'
    <3>1. CASE k = o
      <4>1. AddsUp(o)
        BY <1>9, Kinds DEF IInv, RefsAddUp
      <4>2. adds'[o] = adds[o] - 1 /\ unheard'[o] = unheard[o] - 1
        BY <1>9, Kinds DEF IInv, TypeOK, DispatchAddRefObject, Dec, pluginVars
      <4>3. UNCHANGED <<ref_count, borrowed, browser, releases, passing, kept, discarded>>
        BY <1>9 DEF DispatchAddRefObject, pluginVars
      <4> QED
        BY <1>9, <3>1, <4>1, <4>2, <4>3, Kinds, Counts DEF AddsUp, Tracked,
           One, IInv
    <3>2. CASE k # o
      BY <1>9, <3>2 DEF IInv, TypeOK, RefsAddUp, AddsUp, Tracked, One, Handle,
         DispatchAddRefObject, Dec, pluginVars
    <3> QED  BY <3>1, <3>2
  <2>3. ResourcesAreSimple'
    BY <1>9, Kinds DEF IInv, TypeOK, ResourcesAreSimple, One, Handle,
       DispatchAddRefObject, Dec, pluginVars
  <2>4. TrackerCoversOwned' /\ KeptIsHeld'
    BY <1>9 DEF IInv, TrackerCoversOwned, KeptIsHeld, DispatchAddRefObject,
       pluginVars
  <2> QED
    BY <2>1, <2>2, <2>3, <2>4 DEF IInv, RefsAddUp
<1>10. ASSUME IInv, NEW o \in Object, DispatchReleaseObject(o)
      PROVE  IInv'
  <2>1. TypeOK'
    BY <1>10 DEF IInv, TypeOK, One, Handle, DispatchReleaseObject, Inc, Dec,
       pluginVars
  <2>2. ASSUME NEW k \in Handle PROVE AddsUp(k)'
    <3>1. CASE k = o
      BY <1>10, <3>1, Kinds, Counts DEF IInv, TypeOK, RefsAddUp, AddsUp,
         Tracked, One, DispatchReleaseObject, Inc, Dec, pluginVars
    <3>2. CASE k # o
      BY <1>10, <3>2 DEF IInv, TypeOK, RefsAddUp, AddsUp, Tracked, One, Handle,
         DispatchReleaseObject, Inc, Dec, pluginVars
    <3> QED  BY <3>1, <3>2
  <2>3. ResourcesAreSimple'
    BY <1>10, Kinds DEF IInv, TypeOK, ResourcesAreSimple, One, Handle,
       DispatchReleaseObject, Inc, Dec, pluginVars
  <2>4. TrackerCoversOwned' /\ KeptIsHeld'
    BY <1>10 DEF IInv, TrackerCoversOwned, KeptIsHeld, DispatchReleaseObject,
       pluginVars
  <2> QED
    BY <2>1, <2>2, <2>3, <2>4 DEF IInv, RefsAddUp
<1>11. ASSUME IInv, NEW r \in Resource, AddRefResource(r)
      PROVE  IInv'
  <2>1. TypeOK'
    BY <1>11 DEF IInv, TypeOK, One, Handle, AddRefResource, Inc, browserVars
  <2>2. ASSUME NEW k \in Handle PROVE AddsUp(k)'
    <3>1. CASE k = r
      <4>1. AddsUp(r)
        BY <1>11, Kinds DEF IInv, RefsAddUp
      <4>2. ref_count[r] > 0
        BY <1>11, Kinds, Counts
           DEF IInv, TrackerCoversOwned, ResourcesAreSimple, One, CanUse,
               AddRefResource
      <4>3. ref_count'[r] = ref_count[r] + 1
        BY <1>11, Kinds DEF IInv, TypeOK, AddRefResource, Inc
      <4>4. UNCHANGED <<borrowed, browser, adds, releases, passing, kept, discarded,
                        unheard>>
        BY <1>11 DEF AddRefResource, browserVars
      <4> QED
        BY <1>11, <3>1, <4>1, <4>2, <4>3, <4>4, Kinds, Counts
           DEF IInv, AddsUp, One, Tracked
    <3>2. CASE k # r
      BY <1>11, <3>2 DEF IInv, TypeOK, RefsAddUp, AddsUp, Tracked, One, Handle,
         AddRefResource, Inc, browserVars
    <3> QED  BY <3>1, <3>2
  <2>3. TrackerCoversOwned'
    BY <1>11, Kinds DEF IInv, TypeOK, TrackerCoversOwned, One, Handle,
       AddRefResource, Inc, browserVars
  <2>4. ResourcesAreSimple' /\ KeptIsHeld'
    BY <1>11 DEF IInv, ResourcesAreSimple, KeptIsHeld, AddRefResource,
       browserVars
  <2> QED
    BY <2>1, <2>2, <2>3, <2>4 DEF IInv, RefsAddUp
<1>12. ASSUME IInv, NEW r \in Resource, ReleaseResource(r)
      PROVE  IInv'
  <2>1. TypeOK'
    BY <1>12 DEF IInv, TypeOK, One, Handle, ReleaseResource, ReleaseRef, Dec,
       browserVars
  <2>2. ASSUME NEW k \in Handle PROVE AddsUp(k)'
    <3>1. CASE k = r
      <4>1. AddsUp(r)
        BY <1>12, Kinds DEF IInv, RefsAddUp
      <4>2. /\ ref_count'[r] \in Nat /\ releases'[r] \in Nat
            /\ One(Tracked(r))' + releases'[r] = One(Tracked(r)) + releases[r]
        BY <1>12, Kinds, ReleaseRefMoves DEF IInv, ReleaseResource
      <4>3. UNCHANGED <<borrowed, adds, passing, browser, kept, discarded, unheard>>
        BY <1>12 DEF ReleaseResource, browserVars
      <4>4. r \in borrowed => ref_count[r] > 1
        BY <1>12, Kinds, Counts
           DEF IInv, TrackerCoversOwned, One, ReleaseResource
      <4>5. r \in borrowed => releases'[r] = releases[r]
        BY <1>12, <4>4, Kinds, Counts
           DEF IInv, TypeOK, One, ReleaseResource, ReleaseRef
      <4> QED
        BY <1>12, <3>1, <4>1, <4>2, <4>3, <4>4, <4>5, Kinds, Counts
           DEF IInv, AddsUp, One, Tracked
    <3>2. CASE k # r
      BY <1>12, <3>2 DEF IInv, TypeOK, RefsAddUp, AddsUp, Tracked, One, Handle,
         ReleaseResource, ReleaseRef, Dec, browserVars
    <3> QED  BY <3>1, <3>2
  <2>3. TrackerCoversOwned'
    BY <1>12, Kinds DEF IInv, TypeOK, TrackerCoversOwned, One, Handle,
       ReleaseResource, ReleaseRef, Dec, browserVars
  <2>4. ResourcesAreSimple' /\ KeptIsHeld'
    BY <1>12 DEF IInv, ResourcesAreSimple, KeptIsHeld, ReleaseResource,
       ReleaseRef, browserVars
  <2> QED
    BY <2>1, <2>2, <2>3, <2>4 DEF IInv, RefsAddUp
<1>13. ASSUME IInv, NEW r \in Resource, ReceiveResource(r)
      PROVE  IInv'
  <2>1. TypeOK'
    BY <1>13 DEF IInv, TypeOK, One, Handle, ReceiveResource, TakeRef, Inc, Dec,
       browserVars
  <2>2. ASSUME NEW k \in Handle PROVE AddsUp(k)'
    <3>1. CASE k = r
      <4>1. AddsUp(r)
        BY <1>13, Kinds DEF IInv, RefsAddUp
      <4>2. One(Tracked(r))' + releases'[r] = One(Tracked(r)) + releases[r] + 1
        BY <1>13, Kinds, TakeRefMoves DEF IInv, ReceiveResource
      <4>3. passing'[r] = passing[r] - 1
        BY <1>13, Kinds DEF IInv, TypeOK, ReceiveResource, Dec
      <4>4. UNCHANGED <<borrowed, adds, browser, kept, discarded, unheard>>
        BY <1>13 DEF ReceiveResource, browserVars
      <4>5. ref_count'[r] \in Nat /\ releases'[r] \in Nat
        BY <1>13, Kinds, TakeRefMoves DEF IInv, ReceiveResource
      <4>6. r \in borrowed => releases'[r] = releases[r] + 1
        BY <1>13, Kinds, Counts
           DEF IInv, TypeOK, TrackerCoversOwned, One, ReceiveResource, TakeRef
      <4> QED
        BY <1>13, <3>1, <4>1, <4>2, <4>3, <4>4, <4>5, <4>6, Kinds, Counts
           DEF IInv, AddsUp, One, Tracked
    <3>2. CASE k # r
      BY <1>13, <3>2 DEF IInv, TypeOK, RefsAddUp, AddsUp, Tracked, One, Handle,
         ReceiveResource, TakeRef, Inc, Dec, browserVars
    <3> QED  BY <3>1, <3>2
  <2>3. TrackerCoversOwned'
    BY <1>13, Kinds DEF IInv, TypeOK, TrackerCoversOwned, One, Handle,
       ReceiveResource, TakeRef, Inc, Dec, browserVars
  <2>4. ResourcesAreSimple' /\ KeptIsHeld'
    BY <1>13 DEF IInv, ResourcesAreSimple, KeptIsHeld, ReceiveResource, TakeRef,
       browserVars
  <2> QED
    BY <2>1, <2>2, <2>3, <2>4 DEF IInv, RefsAddUp
<1>14. ASSUME IInv, NEW r \in Resource, HandleDocumentLoad(r)
      PROVE  IInv'
  <2>1. TypeOK'
    BY <1>14 DEF IInv, TypeOK, One, Handle, HandleDocumentLoad, Inc, browserVars
  <2>2. ASSUME NEW k \in Handle PROVE AddsUp(k)'
    <3>1. CASE k = r
      BY <1>14, <3>1, Kinds, Counts DEF IInv, TypeOK, RefsAddUp, AddsUp,
         Tracked, One, HandleDocumentLoad, Inc, browserVars
    <3>2. CASE k # r
      BY <1>14, <3>2 DEF IInv, TypeOK, RefsAddUp, AddsUp, Tracked, One, Handle,
         HandleDocumentLoad, Inc, browserVars
    <3> QED  BY <3>1, <3>2
  <2>3. TrackerCoversOwned'
    BY <1>14, Kinds DEF IInv, TypeOK, TrackerCoversOwned, One, Handle,
       HandleDocumentLoad, Inc, browserVars
  <2>4. ResourcesAreSimple'
    BY <1>14, Kinds
       DEF IInv, TypeOK, ResourcesAreSimple, HandleDocumentLoad, Inc, browserVars
  <2>5. KeptIsHeld'
    BY <1>14 DEF IInv, KeptIsHeld, HandleDocumentLoad, browserVars
  <2> QED
    BY <2>1, <2>2, <2>3, <2>4, <2>5 DEF IInv, RefsAddUp
<1>15. ASSUME IInv, NEW r \in Resource, DispatchReleaseResource(r)
      PROVE  IInv'
  <2>1. browser[r] > 0
    BY <1>15, Kinds, Counts
       DEF IInv, RefsAddUp, AddsUp, ResourcesAreSimple, One,
           DispatchReleaseResource
  <2>2. TypeOK'
    BY <1>15, <2>1, Kinds
       DEF IInv, TypeOK, DispatchReleaseResource, Dec, pluginVars
  <2>3. ASSUME NEW k \in Handle PROVE AddsUp(k)'
    <3>1. CASE k = r
      BY <1>15, <3>1, Kinds, Counts DEF IInv, TypeOK, RefsAddUp, AddsUp,
         Tracked, One, DispatchReleaseResource, Dec, pluginVars
    <3>2. CASE k # r
      BY <1>15, <3>2 DEF IInv, TypeOK, RefsAddUp, AddsUp, Tracked, One, Handle,
         DispatchReleaseResource, Dec, pluginVars
    <3> QED  BY <3>1, <3>2
  <2>4. KeptIsHeld'
    BY <1>15 DEF IInv, TypeOK, ResourcesAreSimple, RefsAddUp, AddsUp,
       KeptIsHeld, One, Handle, DispatchReleaseResource, Dec, pluginVars
  <2>5. TrackerCoversOwned' /\ ResourcesAreSimple'
    BY <1>15 DEF IInv, TrackerCoversOwned, ResourcesAreSimple,
       DispatchReleaseResource, pluginVars
  <2> QED
    BY <2>2, <2>3, <2>4, <2>5 DEF IInv, RefsAddUp
<1>16. ASSUME IInv, NEW h \in Handle, EndCall(h)
      PROVE  IInv'
  <2>1. TypeOK'
    BY <1>16 DEF IInv, TypeOK, One, Handle, EndCall, Dec, browserVars
  <2>2. ResourcesAreSimple'
    BY <1>16, Kinds, Counts
       DEF IInv, TypeOK, ResourcesAreSimple, EndCall, Dec, browserVars
  <2>3. RefsAddUp' /\ TrackerCoversOwned' /\ KeptIsHeld'
    BY <1>16 DEF IInv, RefsAddUp, TrackerCoversOwned, KeptIsHeld, AddsUp,
       Tracked, EndCall, browserVars
  <2> QED
    BY <2>1, <2>2, <2>3 DEF IInv
<1>17. ASSUME IInv, NEW h \in Handle, PassRef(h)
      PROVE  IInv'
  <2>1. TypeOK'
    BY <1>17 DEF IInv, TypeOK, One, Handle, PassRef, Inc, pluginVars
  <2>2. ASSUME NEW k \in Handle PROVE AddsUp(k)'
    <3>1. CASE k = h
      <4>1. AddsUp(h)
        BY <1>17, Kinds DEF IInv, RefsAddUp
      <4>2. browser'[h] = browser[h] + 1 /\ passing'[h] = passing[h] + 1
        BY <1>17, Kinds DEF IInv, TypeOK, PassRef, Inc, pluginVars
      <4>3. UNCHANGED <<ref_count, borrowed, adds, releases, kept, discarded, unheard>>
        BY <1>17 DEF PassRef, pluginVars
      <4> QED
        BY <1>17, <3>1, <4>1, <4>2, <4>3, Kinds, Counts DEF AddsUp, Tracked,
           One, IInv
    <3>2. CASE k # h
      BY <1>17, <3>2 DEF IInv, TypeOK, RefsAddUp, AddsUp, Tracked, One, Handle,
         PassRef, Inc, pluginVars
    <3> QED  BY <3>1, <3>2
  <2>3. KeptIsHeld'
    BY <1>17 DEF IInv, TypeOK, KeptIsHeld, One, Handle, PassRef, Inc, pluginVars
  <2>4. TrackerCoversOwned' /\ ResourcesAreSimple'
    BY <1>17 DEF IInv, TrackerCoversOwned, ResourcesAreSimple, PassRef,
       pluginVars
  <2> QED
    BY <2>1, <2>2, <2>3, <2>4 DEF IInv, RefsAddUp
<1>18. ASSUME IInv, UNCHANGED vars
      PROVE  IInv'
  BY <1>18 DEF vars, IInv, TypeOK, RefsAddUp, AddsUp, TrackerCoversOwned,
        ResourcesAreSimple, KeptIsHeld, Tracked
<1> QED
  BY <1>1, <1>2, <1>3, <1>4, <1>5, <1>6, <1>7, <1>8, <1>9, <1>10, <1>11,
     <1>12, <1>13, <1>14, <1>15, <1>16, <1>17, <1>18
     DEF Next, ObjectStep, ResourceStep

\* All parts of the invariant hold in every state.
LEMMA Invariance == Spec => []IInv
  BY InitInv, NextInv, PTL DEF Spec

\* Every count stays a natural number: the browser never releases a reference it
\* does not have (DispatchReleaseResource, DropReturned).
THEOREM TypeCorrect == Spec => []TypeOK
<1>1. IInv => TypeOK
  BY DEF IInv
<1> QED  BY Invariance, <1>1, PTL

\* References are conserved between the trackers, the messages and the browser.
THEOREM ReferencesAddUp == Spec => []RefsAddUp
<1>1. IInv => RefsAddUp
  BY DEF IInv
<1> QED  BY Invariance, <1>1, PTL

\* The trackers count what the plugin's code owns, but for document loaders and
\* exceptions that were not asked for.
THEOREM TrackersCoverOwned == Spec => []TrackerCoversOwned
<1>1. IInv => TrackerCoversOwned
  BY DEF IInv
<1> QED  BY Invariance, <1>1, PTL

\* A resource the plugin's code owns a reference to is alive in the browser: it is
\* tracked, so that one of the browser's references stands for it.
THEOREM OwnedResourcesAreAlive == Spec => []OwnedResourceIsAlive
<1>1. ASSUME IInv, NEW r \in Resource \ borrowed, owned[r] > 0
      PROVE  browser[r] > 0
  <2>1. Tracked(r)
    BY <1>1 DEF IInv, TypeOK, TrackerCoversOwned, Tracked, One, Handle
  <2> QED
    BY <1>1, <2>1
       DEF IInv, TypeOK, RefsAddUp, AddsUp, ResourcesAreSimple, One, Handle
<1>2. IInv => OwnedResourceIsAlive
  BY <1>1 DEF OwnedResourceIsAlive
<1> QED  BY Invariance, <1>2, PTL

=============================================================================
