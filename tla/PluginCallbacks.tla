--------------------------- MODULE PluginCallbacks ---------------------------
(***************************************************************************)
(* The completion callbacks a plugin hands to the browser (ppapi/proxy).   *)
(* Requests of a URL loader (Open, FollowRedirect, FinishStreamingToFile)  *)
(* send the id that CallbackTracker gives to their callback, and an        *)
(* ExecuteCallback message brings it back.  ReadResponseBody of a loader   *)
(* and Flush of a Graphics2D keep their callback in the plugin's object,   *)
(* at most one at a time, and an Ack names the object.                     *)
(*                                                                         *)
(* The messages are all asynchronous: each direction is FIFO, and a thread *)
(* dispatches them one at a time, from its message loop only: a plugin     *)
(* that runs the loop inside a callback, as the testing interface          *)
(* PPB_Testing lets it do, is left out.                                    *)
(*                                                                         *)
(* A callback is a number, in the order the plugin hands them over.        *)
(* Messages and the browser's pending operations carry, as history, the    *)
(* callback they are to run; no action of the code reads it.               *)
(*                                                                         *)
(* A definition marked "Variant" is a faulty version of the one after it;  *)
(* no specification uses it.                                               *)
(***************************************************************************)
EXTENDS Integers, Sequences, SequencesExt

CONSTANTS
  Loader,        \* ids of URL loaders
  Graphics,      \* ids of Graphics2D resources
  IdCount,       \* number of callback ids: 2^32 in the code
  MaxCallbacks   \* bound on the callbacks the plugin hands over

ASSUME ConstantsOK ==
  /\ Loader \cap Graphics = {}
  /\ IdCount \in Nat \ {0} /\ MaxCallbacks \in Nat

VARIABLES
  tracked,           \* resources in the plugin's resource_map_
  released,          \* resources whose last reference the plugin released
  next_callback_id,  \* CallbackTracker::next_callback_id_
  callback_map,      \* CallbackTracker::callback_map_: [id |-> callback]
  current,           \* current_read_callback_, current_flush_callback_; 0: none
  executing,         \* the answer whose callback runs now, if one does
  to_browser,        \* messages on the way to the browser
  to_plugin,         \* messages on the way to the plugin
  alive,             \* resources the browser has not destroyed
  pending,           \* operations the browser is to answer
  handed,            \* number of callbacks handed over
  ran                \* the callbacks that ran

vars == <<tracked, released, next_callback_id, callback_map, current, executing,
          to_browser, to_plugin, alive, pending, handed, ran>>

Object == Loader \cup Graphics
Id == 0 .. IdCount - 1
Callback == 1 .. MaxCallbacks
None == 0
NoId == -1

\* An operation: id is NoId where the callback stays in the plugin's object.
Operation(kind, r, id, callback) ==
  [kind |-> kind, resource |-> r, id |-> id, callback |-> callback]

Init ==
  /\ tracked = {} /\ released = {} /\ alive = {}
  /\ next_callback_id = 1 % IdCount
  /\ callback_map = <<>>
  /\ current = [r \in Object |-> None]
  /\ executing = {}
  /\ to_browser = <<>> /\ to_plugin = <<>>
  /\ pending = {}
  /\ handed = 0
  /\ ran = {}

-----------------------------------------------------------------------------
(* The plugin's code, from its message loop or from inside a callback. *)

\* Create is synchronous: both sides know the resource when it returns.
Create(r) ==
  /\ r \notin tracked \cup released
  /\ tracked' = tracked \cup {r} /\ alive' = alive \cup {r}
  /\ UNCHANGED <<released, next_callback_id, callback_map, current, executing,
                 to_browser, to_plugin, pending, handed, ran>>

\* A new callback.
HandOver == handed < MaxCallbacks /\ handed' = handed + 1

FreeIds == Id \ DOMAIN callback_map

\* Variant: ids in use are not skipped when the counter wraps around.
NextFreeIdUnchecked == next_callback_id

\* SendCallback: the first id from next_callback_id_ on that is not in the map.
NextFreeId ==
  LET steps == {n \in 0 .. IdCount - 1 :
                  (next_callback_id + n) % IdCount \notin DOMAIN callback_map}
  IN  (next_callback_id + (CHOOSE n \in steps : \A m \in steps : n <= m)) % IdCount

\* Open, FollowRedirect, FinishStreamingToFile.  With all ids in use, the search
\* would not end.
Request(l) ==
  /\ l \in tracked /\ HandOver /\ FreeIds # {}
  /\ callback_map' = [i \in DOMAIN callback_map \cup {NextFreeId} |->
                        IF i = NextFreeId THEN handed' ELSE callback_map[i]]
  /\ next_callback_id' = (NextFreeId + 1) % IdCount
  /\ to_browser' =
       Append(to_browser, Operation("request", l, NextFreeId, handed'))
  /\ UNCHANGED <<tracked, released, current, executing, to_plugin, alive, pending,
                 ran>>

\* Variant: a new operation is sent while one is in progress.
MayStartAnother(r) == r \in tracked

\* current_read_callback_.func, is_flush_pending(): one operation at a time.
MayStart(r) == r \in tracked /\ current[r] = None

\* ReadResponseBody, Flush.
Start(kind, r) ==
  /\ MayStart(r) /\ HandOver
  /\ current' = [current EXCEPT ![r] = handed']
  /\ to_browser' = Append(to_browser, Operation(kind, r, NoId, handed'))
  /\ UNCHANGED <<tracked, released, next_callback_id, callback_map, executing,
                 to_plugin, alive, pending, ran>>

ReadResponseBody(l) == l \in Loader /\ Start("read", l)
Flush(g) == g \in Graphics /\ Start("flush", g)

\* Variant: the plugin's object stays when the last reference goes.
ReleaseKeepingObject(r) ==
  /\ r \in tracked
  /\ tracked' = tracked \ {r} /\ released' = released \cup {r}
  /\ to_browser' = Append(to_browser, Operation("release", r, NoId, None))
  /\ UNCHANGED <<next_callback_id, callback_map, current, executing, to_plugin,
                 alive, pending, handed, ran>>

\* ReleasePluginResourceRef for the last reference: the plugin's object goes, with
\* the callback of its operation.
Release(r) ==
  /\ r \in tracked
  /\ tracked' = tracked \ {r} /\ released' = released \cup {r}
  /\ current' = [current EXCEPT ![r] = None]
  /\ to_browser' = Append(to_browser, Operation("release", r, NoId, None))
  /\ UNCHANGED <<next_callback_id, callback_map, executing, to_plugin, alive,
                 pending, handed, ran>>

-----------------------------------------------------------------------------
(* The browser. *)

NextToBrowser == Head(to_browser)

\* Variant: a flush that fails at once is not acknowledged.
FinishAtOnceUntold ==
  /\ to_browser # <<>> /\ NextToBrowser.kind # "release"
  /\ to_browser' = Tail(to_browser)
  /\ to_plugin' = IF NextToBrowser.kind = "flush" THEN to_plugin
                  ELSE Append(to_plugin, NextToBrowser)
  /\ UNCHANGED <<tracked, released, next_callback_id, callback_map, current,
                 executing, alive, pending, handed, ran>>

\* OnMsgOpen and the like, OnMsgReadResponseBody, OnMsgFlush: the target is done,
\* or fails, in the call, and the answer is sent at once.
FinishAtOnce ==
  /\ to_browser # <<>> /\ NextToBrowser.kind # "release"
  /\ to_browser' = Tail(to_browser)
  /\ to_plugin' = Append(to_plugin, NextToBrowser)
  /\ UNCHANGED <<tracked, released, next_callback_id, callback_map, current,
                 executing, alive, pending, handed, ran>>

\* The target returns PP_ERROR_WOULDBLOCK and keeps the callback; only for a
\* resource it knows.
Defer ==
  /\ to_browser # <<>> /\ NextToBrowser.kind # "release"
  /\ NextToBrowser.resource \in alive
  /\ to_browser' = Tail(to_browser)
  /\ pending' = pending \cup {NextToBrowser}
  /\ UNCHANGED <<tracked, released, next_callback_id, callback_map, current,
                 executing, to_plugin, alive, handed, ran>>

\* PPB_Core_Proxy::OnMsgReleaseResource.  The operations of a loader will be
\* aborted and answered (ppb_url_loader.h:100), those of a Graphics2D may be
\* forgotten (ppb_graphics_2d.h:190).
Destroy ==
  /\ to_browser # <<>> /\ NextToBrowser.kind = "release"
  /\ to_browser' = Tail(to_browser)
  /\ alive' = alive \ {NextToBrowser.resource}
  /\ pending' \in {pending, {op \in pending : \/ op.kind # "flush"
                                              \/ op.resource # NextToBrowser.resource}}
  /\ UNCHANGED <<tracked, released, next_callback_id, callback_map, current,
                 executing, to_plugin, handed, ran>>

\* The target runs the callback: CallbackProxy, OnReadCallback,
\* SendFlushACKToPlugin.
Answer(op) ==
  /\ op \in pending
  /\ pending' = pending \ {op}
  /\ to_plugin' = Append(to_plugin, op)
  /\ UNCHANGED <<tracked, released, next_callback_id, callback_map, current,
                 executing, to_browser, alive, handed, ran>>

-----------------------------------------------------------------------------
(* The plugin's message loop. *)

NextToPlugin == Head(to_plugin)

\* The message loop is idle and has a message.
MayReceive == executing = {} /\ to_plugin # <<>>

Run(c) == ran' = ran \cup {c}

\* ReceiveExecuteSerializedCallback up to the callback: its entry is still there
\* while it runs.
RunRequestCallback ==
  /\ MayReceive /\ NextToPlugin.kind = "request"
  /\ NextToPlugin.id \in DOMAIN callback_map
  /\ Run(callback_map[NextToPlugin.id])
  /\ executing' = {NextToPlugin}
  /\ to_plugin' = Tail(to_plugin)
  /\ UNCHANGED <<tracked, released, next_callback_id, callback_map, current,
                 to_browser, alive, pending, handed>>

\* Variant: the callback runs before it is cleared.
RunOwnCallbackUncleared ==
  /\ MayReceive /\ NextToPlugin.kind # "request"
  /\ NextToPlugin.resource \in tracked /\ current[NextToPlugin.resource] # None
  /\ Run(current[NextToPlugin.resource])
  /\ executing' = {NextToPlugin}
  /\ to_plugin' = Tail(to_plugin)
  /\ UNCHANGED <<tracked, released, next_callback_id, callback_map, current,
                 to_browser, alive, pending, handed>>

\* OnMsgReadResponseBodyAck, OnMsgFlushACK: the callback is cleared first, so that
\* it may start the next operation.
RunOwnCallback ==
  /\ MayReceive /\ NextToPlugin.kind # "request"
  /\ NextToPlugin.resource \in tracked /\ current[NextToPlugin.resource] # None
  /\ Run(current[NextToPlugin.resource])
  /\ current' = [current EXCEPT ![NextToPlugin.resource] = None]
  /\ executing' = {NextToPlugin}
  /\ to_plugin' = Tail(to_plugin)
  /\ UNCHANGED <<tracked, released, next_callback_id, callback_map, to_browser,
                 alive, pending, handed>>

\* The plugin's object is gone: OnMsgReadResponseBodyAck reaches NOTREACHED,
\* OnMsgFlushACK returns.
DropAnswer ==
  /\ MayReceive /\ NextToPlugin.kind # "request"
  /\ NextToPlugin.resource \notin tracked
  /\ to_plugin' = Tail(to_plugin)
  /\ UNCHANGED <<tracked, released, next_callback_id, callback_map, current,
                 executing, to_browser, alive, pending, handed, ran>>

\* The callback returns; the entry of a request's is erased.
EndCallback ==
  \E op \in executing :
    /\ executing' = {}
    /\ callback_map' = [i \in DOMAIN callback_map \ {op.id} |-> callback_map[i]]
    /\ UNCHANGED <<tracked, released, next_callback_id, current, to_browser,
                   to_plugin, alive, pending, handed, ran>>

-----------------------------------------------------------------------------

PluginStep ==
  \E r \in Object :
    \/ Create(r) \/ Release(r)
    \/ r \in Loader /\ Request(r)
    \/ ReadResponseBody(r) \/ Flush(r)

BrowserDispatch == FinishAtOnce \/ Defer \/ Destroy

PluginReceive == RunRequestCallback \/ RunOwnCallback \/ DropAnswer

Next ==
  \/ PluginStep
  \/ BrowserDispatch \/ \E op \in pending : Answer(op)
  \/ PluginReceive \/ EndCallback

Spec == Init /\ [][Next]_vars

\* Both message loops run, the browser finishes what it started, and the plugin's
\* callbacks return.
FairSpec ==
  /\ Spec
  /\ WF_vars(BrowserDispatch)
  /\ \A c \in Callback : WF_vars(\E op \in pending : op.callback = c /\ Answer(op))
  /\ WF_vars(PluginReceive) /\ WF_vars(EndCallback)

-----------------------------------------------------------------------------
(* Properties. *)

Operations ==
  [kind : {"request"}, resource : Loader, id : Id, callback : Callback]
    \cup [kind : {"read"}, resource : Loader, id : {NoId}, callback : Callback]
    \cup [kind : {"flush"}, resource : Graphics, id : {NoId}, callback : Callback]

ReleaseMessages ==
  [kind : {"release"}, resource : Object, id : {NoId}, callback : {None}]

\* Every variable has its type; a resource is created once, and released by the
\* plugin before the browser destroys it.
TypeOK ==
  /\ tracked \cup released \subseteq Object /\ tracked \cap released = {}
  /\ tracked \subseteq alive /\ alive \subseteq tracked \cup released
  /\ handed \in 0 .. MaxCallbacks
  /\ next_callback_id \in Id
  /\ DOMAIN callback_map \subseteq Id
  /\ \A i \in DOMAIN callback_map : callback_map[i] \in 1 .. handed
  /\ current \in [Object -> 0 .. handed]
  /\ \A r \in Object \ tracked : current[r] = None
  /\ executing = {} \/ \E op \in Operations : executing = {op}
  /\ to_browser \in Seq(Operations \cup ReleaseMessages)
  /\ to_plugin \in Seq(Operations)
  /\ pending \subseteq Operations
  /\ ran \subseteq 1 .. handed

\* The operations of kind k that were sent and whose answer was not received.
InFlight(k) ==
  {op \in ToSet(to_browser) \cup pending \cup ToSet(to_plugin) : op.kind = k}

\* callback_tracker.cc, SendCallback and ReceiveExecuteSerializedCallback:
\* however ids wrap around, and whatever callbacks send while they run, an id on
\* its way to the browser and back is that of the callback it was taken for, and
\* that of no other operation.
IdIsOfItsCallback ==
  /\ \A op \in InFlight("request") \cup {op \in executing : op.kind = "request"} :
       op.id \in DOMAIN callback_map /\ callback_map[op.id] = op.callback
  /\ \A op \in executing : op.kind = "request" =>
       \A other \in InFlight("request") : other.id # op.id

\* ppb_url_loader_proxy.cc, ppb_graphics_2d_proxy.cc: an object in the plugin has a
\* callback exactly when one operation is on its way, in the browser, or on its
\* way back, and it is that operation's: an answer for an object that is still
\* there finds its callback.
CurrentOperationIsCarried ==
  \A r \in tracked :
    LET ops == {op \in InFlight("read") \cup InFlight("flush") : op.resource = r}
    IN  IF current[r] = None THEN ops = {}
        ELSE \E op \in ops : ops = {op} /\ op.callback = current[r]

\* ppb_url_loader.h, Open: the callback of a request runs, even if the plugin
\* releases the loader; that of a read or a flush runs unless its object was
\* released.
CallbackRuns ==
  \A c \in Callback :
    /\ (\E i \in DOMAIN callback_map : callback_map[i] = c) ~> c \in ran
    /\ \A r \in Object : current[r] = c ~> (c \in ran \/ r \in released)

\* ppb_url_loader.h:100, "Any pending callbacks will still run, reporting
\* PP_ERROR_ABORTED if pending IO was interrupted [...] If the URLLoader object is
\* destroyed, and it is still open, then it will be implicitly closed": the
\* callback of a read runs, whether or not the plugin releases its loader.
ReadCallbackRuns ==
  \A l \in Loader, c \in Callback : current[l] = c ~> c \in ran

=============================================================================
