--------------------------- MODULE PluginReferences ---------------------------
(***************************************************************************)
(* The references a plugin process holds to the objects and resources of  *)
(* the browser (ppapi/proxy).  PluginVarTracker counts the references of  *)
(* the plugin's code to an object, PluginResourceTracker those to a        *)
(* resource; the browser is to hold one reference for as long as such a    *)
(* count is not zero.  References move with replies ("pass ref"): one that *)
(* the browser took for the plugin arrives with the reply of a call, and   *)
(* the plugin gives one to the browser when a function it implements       *)
(* returns an object.  AddRef and Release messages keep the two sides in   *)
(* step.                                                                   *)
(*                                                                         *)
(* Messages of one kind for one handle are told apart by nothing, so that  *)
(* a number stands for those on the way.  They are dispatched in any       *)
(* order: asynchronous messages wait in the browser's message loop while   *)
(* synchronous calls and replies overtake them.                            *)
(*                                                                         *)
(* A definition marked "Variant" is a faulty version of the one after it;  *)
(* no specification uses it.                                               *)
(***************************************************************************)
EXTENDS Integers

CONSTANTS
  Object,       \* ids of objects (PP_VARTYPE_OBJECT)
  Resource,     \* ids of resources
  MaxOwned,     \* bound on the references the plugin's code owns to a handle
  MaxMessages,  \* bound on the ref messages for an object on the way
  MaxPassed,    \* bound on the references the browser holds to a handle
  MaxDiscards   \* bound on the exceptions the plugin asks not to see

ASSUME ConstantsOK ==
  /\ Object \cap Resource = {}
  /\ MaxOwned \in Nat /\ MaxMessages \in Nat
  /\ MaxPassed \in Nat /\ MaxDiscards \in Nat

VARIABLES
  ref_count,  \* object_ref_count_, and ref_count in resource_map_; 0: no entry
  owned,      \* references the plugin's code owns and is to release
  lent,       \* calls in the plugin that have the handle as an argument
  borrowed,   \* resources the plugin tracks as the argument of a call
  adds,       \* AddRefObject messages on the way to the browser
  releases,   \* ReleaseObject and ReleaseResource messages on the way
  passing,    \* replies on the way to the plugin that carry a reference
  returned,   \* replies on the way to the browser that carry a reference
  browser,    \* references in the browser taken through the proxies
  kept,       \* those of them that callers in the browser own
  discarded,  \* references that came with an exception nobody asked for
  unheard     \* Release minus AddRef messages the browser did not handle

vars == <<ref_count, owned, lent, borrowed, adds, releases, passing, returned,
          browser, kept, discarded, unheard>>

pluginVars == <<ref_count, owned, lent, borrowed>>
browserVars == <<browser, kept, unheard>>

Handle == Object \cup Resource

One(b) == IF b THEN 1 ELSE 0

Init ==
  /\ ref_count = [h \in Handle |-> 0]
  /\ owned = [h \in Handle |-> 0]
  /\ lent = [h \in Handle |-> 0]
  /\ borrowed = {}
  /\ adds = [h \in Handle |-> 0]
  /\ releases = [h \in Handle |-> 0]
  /\ passing = [h \in Handle |-> 0]
  /\ returned = [h \in Handle |-> 0]
  /\ browser = [h \in Handle |-> 0]
  /\ kept = [h \in Handle |-> 0]
  /\ discarded = [h \in Handle |-> 0]
  /\ unheard = [h \in Handle |-> 0]

Inc(f, h) == [f EXCEPT ![h] = @ + 1]
Dec(f, h) == [f EXCEPT ![h] = @ - 1]

-----------------------------------------------------------------------------
(* The trackers. *)

\* Variant: the last Release tells nobody.
ReleaseRefSilently(h) ==
  /\ ref_count' = [ref_count EXCEPT ![h] = IF @ = 0 THEN 0 ELSE @ - 1]
  /\ UNCHANGED releases

\* Variant: no return for a handle that is not tracked.
ReleaseRefUntracked(h) ==
  /\ ref_count' = Dec(ref_count, h)
  /\ releases' = [releases EXCEPT ![h] = @ + One(ref_count[h] = 1)]

\* Release, ReleasePluginResourceRef: nothing for a handle that is not tracked;
\* the last reference is given up with a message.
ReleaseRef(h) ==
  /\ ref_count' = [ref_count EXCEPT ![h] = IF @ = 0 THEN 0 ELSE @ - 1]
  /\ releases' = [releases EXCEPT ![h] = @ + One(ref_count[h] = 1)]

\* Variant: the reference is counted, and the browser keeps the spare one.
TakeRefKeepingSpare(h) ==
  /\ ref_count' = Inc(ref_count, h)
  /\ UNCHANGED releases

\* Variant: a first reference is taken for a spare one.
TakeRefReleasing(h) ==
  /\ ref_count' = Inc(ref_count, h)
  /\ releases' = Inc(releases, h)

\* ReceiveObjectPassRef, PreparePreviouslyTrackedResource with AddResource: the
\* first reference stands for the one the browser took; another one of the
\* browser's is spare.
TakeRef(h) ==
  /\ ref_count' = Inc(ref_count, h)
  /\ releases' = [releases EXCEPT ![h] = @ + One(ref_count[h] > 0)]

-----------------------------------------------------------------------------
(* The plugin's code.  It uses a handle it owns a reference to, or that is *)
(* an argument of a call it is in.                                         *)

CanUse(h) == owned[h] > 0 \/ lent[h] > 0

AddRefVar(o) ==
  /\ CanUse(o) /\ owned[o] < MaxOwned
  /\ adds[o] + releases[o] < MaxMessages
  /\ ref_count' = Inc(ref_count, o)
  /\ owned' = Inc(owned, o)
  /\ adds' = [adds EXCEPT ![o] = @ + One(ref_count[o] = 0)]
  /\ UNCHANGED <<lent, borrowed, releases, passing, returned, discarded>>
  /\ UNCHANGED browserVars

ReleaseVar(o) ==
  /\ owned[o] > 0
  /\ owned' = Dec(owned, o)
  /\ ReleaseRef(o)
  /\ UNCHANGED <<lent, borrowed, adds, passing, returned, discarded>>
  /\ UNCHANGED browserVars

\* AddRefResource sends nothing.
AddRefResource(r) ==
  /\ CanUse(r) /\ owned[r] < MaxOwned
  /\ ref_count' = Inc(ref_count, r)
  /\ owned' = Inc(owned, r)
  /\ UNCHANGED <<lent, borrowed, adds, releases, passing, returned, discarded>>
  /\ UNCHANGED browserVars

ReleaseResource(r) ==
  /\ owned[r] > 0
  /\ owned' = Dec(owned, r)
  /\ ReleaseRef(r)
  /\ UNCHANGED <<lent, borrowed, adds, passing, returned, discarded>>
  /\ UNCHANGED browserVars

-----------------------------------------------------------------------------
(* The replies the plugin gets. *)

\* The object of a result, an out parameter or an exception the caller asked for.
ReceiveObject(o) ==
  /\ passing[o] > 0
  /\ passing' = Dec(passing, o)
  /\ owned' = Inc(owned, o)
  /\ TakeRef(o)
  /\ UNCHANGED <<lent, borrowed, adds, returned, discarded>>
  /\ UNCHANGED browserVars

\* ~ReceiveSerializedException without an exception_: ReleaseObjectRef releases a
\* reference of the plugin's own, if it has one.
DiscardException(o) ==
  /\ passing[o] > 0 /\ discarded[o] < MaxDiscards
  /\ passing' = Dec(passing, o)
  /\ ReleaseRef(o)
  /\ discarded' = Inc(discarded, o)
  /\ UNCHANGED <<owned, lent, borrowed, adds, returned>>
  /\ UNCHANGED browserVars

ReceiveResource(r) ==
  /\ passing[r] > 0
  /\ passing' = Dec(passing, r)
  /\ owned' = Inc(owned, r)
  /\ TakeRef(r)
  /\ UNCHANGED <<lent, borrowed, adds, returned, discarded>>
  /\ UNCHANGED browserVars

-----------------------------------------------------------------------------
(* Calls of the browser that the plugin handles. *)

\* BeginReceiveCallerOwned: the browser keeps the reference of an argument.
HandleCall(o) ==
  /\ lent[o] = 0
  /\ lent' = Inc(lent, o)
  /\ UNCHANGED <<ref_count, owned, borrowed, adds, releases, passing, returned,
                 discarded>>
  /\ UNCHANGED browserVars

\* The tracker gets the loader with a count of 1, and neither the browser nor
\* the plugin's code has a reference for it.
HandleDocumentLoad(r) ==
  /\ r \notin borrowed
  /\ ref_count[r] = 0 /\ browser[r] = 0
  /\ ref_count' = [ref_count EXCEPT ![r] = 1]
  /\ lent' = Inc(lent, r)
  /\ borrowed' = borrowed \cup {r}
  /\ UNCHANGED <<owned, adds, releases, passing, returned, discarded>>
  /\ UNCHANGED browserVars

\* EndReceiveCallerOwned: nothing for an object.
EndCall(h) ==
  /\ lent[h] > 0
  /\ lent' = Dec(lent, h)
  /\ UNCHANGED <<ref_count, owned, borrowed, adds, releases, passing, returned,
                 discarded>>
  /\ UNCHANGED browserVars

\* Variant: EndSendPassRef leaves the reference in the tracker.
ReturnObjectUnreleased(o) ==
  /\ owned[o] > 0 /\ returned[o] + kept[o] < MaxOwned
  /\ owned' = Dec(owned, o)
  /\ returned' = Inc(returned, o)
  /\ UNCHANGED <<ref_count, releases, lent, borrowed, adds, passing, discarded>>
  /\ UNCHANGED browserVars

\* SerializedVarReturnValue or SerializedVarOutParam, and EndSendPassRef from
\* ~Inner: the plugin's reference is released before the reply is sent.
ReturnObject(o) ==
  /\ owned[o] > 0 /\ returned[o] + kept[o] < MaxOwned
  /\ owned' = Dec(owned, o)
  /\ ReleaseRef(o)
  /\ returned' = Inc(returned, o)
  /\ UNCHANGED <<lent, borrowed, adds, passing, discarded>>
  /\ UNCHANGED browserVars

-----------------------------------------------------------------------------
(* The browser. *)

\* The implementation of a call returns a handle, with a reference taken on
\* behalf of the plugin; BeginSendPassRef and EndSendPassRef do nothing.  A
\* document's loader is never a result.
PassRef(h) ==
  /\ h \notin borrowed
  /\ browser[h] < MaxPassed /\ owned[h] + passing[h] < MaxOwned
  /\ browser' = Inc(browser, h)
  /\ passing' = Inc(passing, h)
  /\ UNCHANGED <<adds, releases, returned, kept, discarded, unheard>>
  /\ UNCHANGED pluginVars

\* HostVarSerializationRules::ReceivePassRef takes the browser's own reference.
ReceiveReturned(o) ==
  /\ returned[o] > 0
  /\ returned' = Dec(returned, o)
  /\ browser' = Inc(browser, o)
  /\ kept' = Inc(kept, o)
  /\ UNCHANGED <<adds, releases, passing, discarded, unheard>>
  /\ UNCHANGED pluginVars

\* The caller in the browser releases what a call returned to it.
DropReturned(o) ==
  /\ kept[o] > 0
  /\ kept' = Dec(kept, o)
  /\ browser' = Dec(browser, o)
  /\ UNCHANGED <<adds, releases, passing, returned, discarded, unheard>>
  /\ UNCHANGED pluginVars

\* PPB_Var_Deprecated_Proxy has no case for AddRefObject ...
DispatchAddRefObject(o) ==
  /\ adds[o] > 0
  /\ adds' = Dec(adds, o)
  /\ unheard' = Dec(unheard, o)
  /\ UNCHANGED <<releases, passing, returned, browser, kept, discarded>>
  /\ UNCHANGED pluginVars

\* ... and none for ReleaseObject.
DispatchReleaseObject(o) ==
  /\ releases[o] > 0
  /\ releases' = Dec(releases, o)
  /\ unheard' = Inc(unheard, o)
  /\ UNCHANGED <<adds, passing, returned, browser, kept, discarded>>
  /\ UNCHANGED pluginVars

\* PPB_Core_Proxy::OnMsgReleaseResource.
DispatchReleaseResource(r) ==
  /\ releases[r] > 0
  /\ releases' = Dec(releases, r)
  /\ browser' = Dec(browser, r)
  /\ UNCHANGED <<adds, passing, returned, kept, discarded, unheard>>
  /\ UNCHANGED pluginVars

-----------------------------------------------------------------------------

ObjectStep(o) ==
  \/ AddRefVar(o) \/ ReleaseVar(o)
  \/ ReceiveObject(o) \/ DiscardException(o)
  \/ HandleCall(o) \/ ReturnObject(o)
  \/ ReceiveReturned(o) \/ DropReturned(o)
  \/ DispatchAddRefObject(o) \/ DispatchReleaseObject(o)

ResourceStep(r) ==
  \/ AddRefResource(r) \/ ReleaseResource(r)
  \/ ReceiveResource(r) \/ HandleDocumentLoad(r)
  \/ DispatchReleaseResource(r)

Next ==
  \/ \E o \in Object : ObjectStep(o)
  \/ \E r \in Resource : ResourceStep(r)
  \/ \E h \in Handle : EndCall(h) \/ PassRef(h)

\* The message loops of the two processes run their tasks; nothing is assumed of
\* the plugin's code.
LoopFairness ==
  \A r \in Resource : /\ WF_vars(DispatchReleaseResource(r))
                      /\ WF_vars(ReceiveResource(r))

Spec == Init /\ [][Next]_vars /\ LoopFairness

-----------------------------------------------------------------------------
(* Properties. *)

Tracked(h) == ref_count[h] > 0

\* Every variable has its type; no count is ever negative.
TypeOK ==
  /\ ref_count \in [Handle -> Nat] /\ owned \in [Handle -> Nat]
  /\ lent \in [Handle -> Nat] /\ borrowed \in SUBSET Resource
  /\ adds \in [Handle -> Nat] /\ releases \in [Handle -> Nat]
  /\ passing \in [Handle -> Nat] /\ returned \in [Handle -> Nat]
  /\ browser \in [Handle -> Nat] /\ kept \in [Handle -> Nat]
  /\ discarded \in [Handle -> Nat] /\ unheard \in [Handle -> Int]

\* What the browser holds, and is to hold, of handle h.
AddsUp(h) ==
  browser[h] + adds[h] =
    One(Tracked(h) /\ h \notin borrowed) + passing[h] + releases[h]
      + kept[h] + discarded[h] + unheard[h]

\* plugin_var_tracker.cc, ReceiveObjectPassRef, AddRef and Release: however passed
\* references, retained arguments and returned objects interleave, what the
\* browser holds is one reference for a tracked handle, those of its own callers
\* and those of messages on the way or not handled.  An exception that is not
\* asked for adds one that no message gives back.
RefsAddUp == \A h \in Handle : AddsUp(h)

\* plugin_var_tracker.h:62, "the reference count of that object on the plugin
\* side": a tracker counts what the plugin's code owns, one more for a document's
\* loader, and at worst one less for each exception that was not asked for.
TrackerCoversOwned ==
  /\ \A r \in Resource : ref_count[r] = owned[r] + One(r \in borrowed)
  /\ \A o \in Object :
       IF discarded[o] = 0 THEN ref_count[o] = owned[o]
                           ELSE ref_count[o] + discarded[o] >= owned[o]

\* ppb_core_proxy.cc, OnMsgReleaseResource: while the plugin's code owns a
\* reference to a resource, the browser holds one for it, whatever Release
\* messages are still to come.  A document's loader is the exception.
OwnedResourceIsAlive ==
  \A r \in Resource \ borrowed : owned[r] > 0 => browser[r] > 0

\* plugin_resource_tracker.cc, ReleasePluginResourceRef: when the plugin's code has
\* released all it owned of a resource, the browser's references go, unless the
\* plugin is given the resource again.
ReleasedResourceIsFreed ==
  \A r \in Resource : owned[r] = 0 ~> (browser[r] = 0 \/ owned[r] > 0)

\* Nothing about object o is on the way, and no call has it as an argument.
Quiet(o) ==
  lent[o] + adds[o] + releases[o] + passing[o] + returned[o] = 0

\* plugin_var_tracker.h:22, "we maintain a single ref in the renderer process
\* whenever we have a nonzero refcount in the plugin process": when all messages
\* were dispatched, the browser holds one reference for a tracked object.
SingleRefInBrowser ==
  \A o \in Object :
    Quiet(o) /\ discarded[o] = 0 => browser[o] = kept[o] + One(Tracked(o))

\* plugin_var_tracker.h:62 for objects, exceptions that were not asked for
\* included (serialized_var.cc:274): the tracker counts the references the
\* plugin's code owns.
TrackerCountsOwned ==
  \A o \in Object : ref_count[o] = owned[o]

=============================================================================
