# TLA+ models of uscxml

These are TLA+ models of the uscxml SCXML interpreter, written from the C++ sources under `src/` and checked with TLC.
The project state, with its components, runs, mutants, the map from definitions to source lines, findings and hazards, is in `PROJECT.json`.

## 1. The system and its parts

The interpreter runs one *stepping thread*.
The following threads feed it events:
- the timer thread of the delayed queue;
- invokers;
- I/O processors.

| Part | Source | State | Operations | Interacts with |
|---|---|---|---|---|
| EventQueue | `interpreter/EventQueue.cpp`, `EventQueueImpl.cpp` 29-55 | `_queue` (deque), `_mutex` (recursive), `_cond` | `enqueue` (push_back and notify_all); `dequeue(blockMs)`, which waits in a `while(empty)` loop | Producers call enqueue; the stepping thread calls `dequeueInternal`/`dequeueExternal` (InterpreterImpl.h) |
| DelayedEventQueue | `EventQueueImpl.cpp` 57-187 | `_callbackData` (id to entry, whose timer is the `event*`), the libevent base, `_isStarted`, `_thread`, `_mutex` | `enqueueDelayed` (an existing id is cancelled first); `cancelDelayed`; `cancelAllDelayed`; `start`; `stop`; the timer thread's `run` loop and `timerCallback` | `timerCallback` calls `eventReady`, which makes the interpreter enqueue into the external queue |
| Data | `messages/Data.cpp` | A value is an atom (interpreted or verbatim), a compound, an array or a node | `merge`; `toJSON`/`fromJSON`; `jsonEscape`/`jsonUnescape` | Every event payload and every data-model value; the data models convert script values to Data and back (`getValueAsData`/`getDataAsValue`) |
| Factory | `plugins/Factory.cpp/.h` | Alias maps for each plugin kind; a parent factory | `registerX`; `hasX`/`createX` (these fall back to the parent); `eventToSCXML` | The interpreter creates its data model, invokers and I/O processors through the Factory |
| Lua / JSC data models | `plugins/datamodel/...` | The script context and the reserved bindings | `assign`; `init`; `evalAsData`; `getLength`; `setForeach`; `isDeclared` | The interpreter, through the data-model callbacks |
| Interpreter callbacks | `interpreter/InterpreterImpl.h` | The queues, `_delayQueue`, the invoker maps | `dequeueInternal`/`External`; `enqueueInternal`/`External`/`ExternalDelayed` | All of the above |
| MicroStep engine | `interpreter/MicroStep.cpp` | This file is only a facade; the algorithm is not among the sources | `step(blockMs)` | The interpreter and the queues |
| DOM bindings | `JSCCharacterData.cpp`, `JSCDocumentType.cpp`, `V8CDATASection.h` | None of their own | Generated SWIG glue | Not modelled |

### What makes each part hard to test

These are the behaviours a unit test rarely reaches.
Each is listed as a hazard in PROJECT.json.
- **EventQueue.**
  - A consumer is woken spuriously and must re-test the queue.
  - A wait must be woken by `notify_all`.
  - Several producers race the consumer between its wake-up and its re-test of the queue.
  - `size_t blockMs` is converted to `bool`.
- **DelayedEventQueue.**
  - Locks:
    - a timer expires while the stepping thread cancels it or replaces it;
    - `event_del` of a timer whose callback is running waits for that callback, and the callback waits for `_mutex`.
  - Memory:
    - the callback's argument points into `_callbackData`, so an erased entry leaves it pointing at freed memory;
    - the callback frees its event before erasing the entry.
  - Shutdown:
    - `_isStarted` is a plain bool read without a lock;
    - `event_base_loop` clears a pending loopbreak when it is entered;
    - `stop()` joins a thread that may be waiting for a timer due in one year.
- **Data.**
  - `merge` of an atom with a compound.
  - `fromJSON`'s array index counter is never reset.
  - `\v` is escaped but never unescaped.
  - A bare token keeps its quotes.
- **Factory.** A later alias shadows an earlier one, and lookups fall back to the parent.
- **Data models.**
  - Lua's 1-based foreach over arrays whose keys start at 0.
  - JSC's cast of a double length to `uint32_t`.
  - JSC's conversion of script values to Data and back, which decides array or object from the property names and packs arrays.
  - `assign` rejecting the reserved names.
  - Lua's `_ioprocessors` and `_invokers` tables, copied once at `setup`, against JSC's, which read the live maps on every access.
  - Lua's one global `__tmpFunc` for every function converted to Data.

## 2. Modules

| Module | Models | State ↔ code |
|---|---|---|
| `EventQueue` | `EventQueueImpl::enqueue/dequeue` and `EventQueue::dequeue(size_t)` | `queue` = `_queue`; `cpc` is where the stepping thread is in `dequeue` (`idle`, `waiting` in `_cond.wait`, or `woken` but not yet holding the mutex again); `sent` counts each producer's enqueues; `result`/`dequeued` record what dequeue returned |
| `DelayedEventQueue` | `DelayedEventQueueImpl` with the libevent semantics the code relies on | See below |
| `DataValue` | `Data` as a record (atom, type, compound, array) and Data.cpp's pure functions: `merge`, `jsonEscape`, `jsonUnescape`, `toJSON`, and jsmn's token list | No state: operators |
| `FromJSON` | `Data::fromJSON`'s token walk over the text `toJSON` wrote | `data`, `dataStack` (as paths into `data`), `tokenStack`, `currTok`, `index` = the code's locals; `pc` is where the do-loop is |
| `DataMerge` | Successive `Data::merge` calls | `d` the Data merged into; `before`/`other` the latest call's operands (ghost) |
| `Factory` | Registration and the `hasX`/`createX` lookups through a parent factory | `aliases`, `plugins`, `executableContent` = the `_xAliases`, `_x` and `_executableContent` maps of each factory and kind |
| `DataModel` | The Lua and JSC data models as the interpreter drives them, and the `<foreach>` loop through the `getLength`/`setForeach` callbacks | `env[dm][l]` the script value of global `l`; `loop` the running foreach (names, length, next iteration); `sysEvent`, `last`, `bound` ghosts |
| `Plugins` | `Factory` and `DataModel` composed through `createDataModel`, with `eventToSCXML` enqueueing on the session's queues | The two modules' state, `session` (which data model was created), the internal and external queues |
| `JSCEventData` | A value sent between JSC sessions: `evalAsData` and `getValueAsData` in the sender, `setEvent` and `getDataAsValue` in the receiver | `sent` the expression's value, `param` the Data in the event, `received` `_event.data` of the param |
| `LuaEventData` | A value a Lua session sends itself as event data: `evalAsData` and `getLuaAsData`, then `setEvent` and `getDataAsLua` | `sent` the expression's value, `param` the Data in the event, `received` `_event.data` of the param, `tmpFunc` the session's global `__tmpFunc` |
| `MCEventData` | `JSCEventData` and `LuaEventData` as one run: `dm`, chosen in `Init`, says which data model's event data is checked; the other part stays in its initial state | Both modules' state, renamed with a `j`/`l` prefix |
| `ReplaceExpressions` | `DataModelImpl::replaceExpressions`' scanning loop, as a recursion over its locals | `text`, `content` (changed in place), `replacements` |

**EventQueue.**
- Each critical section is one step, because the recursive mutex is only released inside `_cond.wait`.
- `Dequeue(b)` models one call from taking the lock until it waits or returns.
  - `Blocking(b)` is the `size_t` to `bool` conversion.
- `Wake` is the re-test of the `while` after a wake-up.
- `SpuriousWakeup` is a wake-up without a notification.
- `Enqueue(p)` is push_back followed by notify_all.

**DelayedEventQueue.**
- State and code:
  - `callbackData[id]` = `_callbackData[id]`, the entry's event handle and payload.
  - A *handle* is an `event*` returned by `event_new`, numbered by the schedule that created it.
  - `pending`/`active` are libevent's timer heap and its active list.
  - `current` is the callback that is running.
  - `freed` holds the handles that `event_free` has released.
  - `eventBreak` is the base's `event_break` flag.
  - `locked` is `_mutex`.
- The threads:
  - The client, which is the stepping thread, has `cl.pc` and runs, one step each:
    - `CallEnqueueDelayed`/`EnqueueDelayedBody`;
    - `CallCancelDelayed`/`CancelDelayedBody`;
    - `StopBegin`, `StopBreak`, `CancelAllLock`, `CancelAllStep` and `Join`.
  - The timer thread has `tpc` and runs:
    - `RunCheck` (the `while(_isStarted)` test);
    - `LoopEnter` (`event_base_loop` clears `event_break`);
    - `Expire` (a timer falls due and is activated);
    - `RunCallback`;
    - `TimerCallback` (the body of `timerCallback` under `_mutex`);
    - `LoopBreak` and `MoreDone`;
    - `DummyFire` (the one-year dummy timer).
- `DelAndFree` is `event_del` and then `event_free`. Its guard is libevent's rule that `event_del` waits while that event's callback is running in another thread.
- Delays are abstracted: any armed timer may expire at any moment, in any order.
- A history of schedules (`sched`), the handles that expired (`expired`), a ghost `live` (the schedule each id currently stands for) and `delivered` say which delivery is legitimate.

**Data.**
- `Merge`, `Encode`/`toJSON` and the escapes are recursive operators over values of bounded depth.
- `FromJSON` steps through the do-loop of `fromJSON`:
  - `Parse` is the tokenizing and the bare-token branch;
  - `ReadToken` is the switch on a token;
  - `PopToken` is one pop of the two stacks;
  - `PushChild` is the push of the next key or array element.
- `MCData` puts `FromJSON` and `DataMerge` in one run. Each behaviour exercises one of the two, with that part's own bounds. `DataMerge` is taken by `INSTANCE ... WITH`, and its value sets are bound to constants in the cfg, because TLC computes constants once.

**Factory and data models.**
- In `Factory`, the three plugin kinds share their code, so the kind is a parameter of `registerX`, `hasX` and `createX`. `hasX` and `createX` change nothing, so they are operators.
- `DataModel` has one action per callback: `assign`, `init` and `setEvent` for each engine, with `luaX`/`jscX` names. Script values are a few abstract kinds that the two engines treat differently.
- A `<foreach>` is three actions, because the ContentExecutor that runs it is not among the sources (spec §4.4):
  - `ForeachBegin` calls `getLength` on the array;
  - `ForeachIteration` calls `setForeach` for iteration `i`;
  - `ForeachEnd` ends the loop.
- `Plugins` runs registration, then `createDataModel` through the session factory, then the created data model's callbacks and `eventToSCXML` from invokers and I/O processors.

**JSCEventData.**
- `getValueAsData` and `getDataAsValue` are RECURSIVE operators over JavaScript values.
  - A value is a record `[t, s, props]`. The `props` of arrays and objects map property names to values, and a sparse array lacks some indices.
- `Send` is the sender's `evalAsData` of the `<param>` expression. When `getValueAsData` throws (an empty object or array), the Data is the expression's text.
- `setEvent` is the receiver copying the params into `data.compound` and converting it with `getDataAsValue`. Text the sender fell back to is the literal of the value sent. The receiver's `evalAsValue` runs it as a program (`LiteralAsScript`): `[]` gives an empty array again, while `{}` opens a block and gives `undefined`. Values are one level deep, so these are the only texts that arise.

**LuaEventData.**
- A Lua value is a record `[t, s, props]`; a table's `props` maps keys to non-nil values, and a key in `NumKeys` is a number key.
- `getLuaAsData` is a RECURSIVE operator that returns the Data and the session's `__tmpFunc` afterwards:
  - a function is stored in `__tmpFunc`, and the Data holds the name `__tmpFunc`;
  - a table's entries are converted in `lua_next` order (`Traversal`); a number key is cast to `int` and inserted into the array with `std::map::insert`, which keeps an index already there.
- `getDataAsLua` evaluates an INTERPRETED atom that is not a number, so `__tmpFunc` is read when the event is processed, not when it was sent.
- `evalAsData` and `setEvent` are one action each, as in JSCEventData.

## 3. Runs

| Run | cfg | Result | What it shows |
|---|---|---|---|
| `eventqueue` | `EventQueue.cfg` | pass | Three producers each enqueue 3 events. The consumer polls (0) or blocks (100), and spurious wake-ups are allowed. `BlockingNeverEmpty` and `EventuallyDequeued` hold. |
| `eventqueue_timed` | `EventQueueTimed.cfg` | violation | `TimedDequeueReturns`: `dequeue(100)` on an empty queue never returns. The spec says it returns after 100 ms. |
| `delayed` | `DelayedEventQueue.cfg` | pass | Two ids, two payloads and four schedules among five client calls race timer expiry, and then `stop()` runs. `DeliveryHonoursSchedule`: each delivery is the live schedule of its id, after that schedule's timer expired. `TimersOwnedByEntries`: every armed or running timer belongs to exactly the entry that names it, and none is freed. |
| `delayed_cancel_deadlock` | `DelayedCancelDeadlock.cfg` | violation | `CancelReturns`: with one id, re-enqueueing or cancelling while its callback has started deadlocks both threads. |
| `delayed_stop_hang` | `DelayedStopHang.cfg` | violation | `StopReturns`: a loopbreak issued just before the timer thread re-enters `event_base_loop` is lost, so `join()` hangs. |
| `data` | `MCData.cfg` | pass | The Data layer. For values nested two deep with at most one array, `DecodesToEncoded`: when `fromJSON(toJSON(d))` returns, it returns `d`. `MergeUnitesByPath`: two successive merges of values two levels deep agree, at every key path, with spec §3's union/override statement. |
| `fromjson_round_trip` | `FromJSONRoundTrip.cfg` | violation | `RoundTrips` (both halves of the text round trip at once), over values with up to two arrays: a string holding a vertical tab makes `fromJSON` throw on `toJSON`'s text, at depth 2. `FromJSONArrayIndex.cfg` checks only `DecodesToEncoded` on the same inputs, and shows the second failure: with an array inside an array, the inner elements decode at the wrong indices. |
| `plugins` | `MCPlugins.cfg` | pass | Registration in a global and a session factory, creation of the session's data model, the data model driven by assign/init/setEvent/foreach, and one event handed back by an invoker or I/O processor. `HasAgreesWithCreate`: `hasX` answers TRUE exactly when `createX` finds a prototype, for every factory, kind, name and namespace. `JSCForeachBindsEveryElement`: a JSC `<foreach>` that runs to its end has bound its item to every element of the array. |
| `event_data` | `EventData.cfg` (`MCEventData`) | violation | `EventDataSurvives`, over every JavaScript value one level deep and every Lua value with up to four table entries: a value sent as a `<param>` arrives changed. TLC's trace sends the sparse JSC array `[, null]`, which arrives as `[null]`. Run with `-continue`, TLC also reports the other cases of findings 8 and 9: in JSC, `''` arrives as `undefined`, `{"1": null}` as `[null]`, and `{}` (sent as its text, see below) as `undefined`; in Lua, `{[1.5] = x}` arrives as `{[1] = x}`, and a table of `f1` and `f2` arrives with `f2` twice. |
| `datamodel_reserved` | `DataModelReserved.cfg` | violation | `ReservedBindingsIntact`: Lua `init` of `_sessionid` sets it to nil before `assign` rejects the name. |
| `lua_foreach_first_element` | `LuaForeachFirstElement.cfg` | violation | `ForeachBindsEveryElement`: a Lua `<foreach>` over an array that came from a Data array never binds element 0. |
| `replace_expressions` | `ReplaceExpressions.cfg` | violation | `ReplacesEachExpressionOnce`, over every text of up to 7 characters from `$ { } a x`: the text before a `${` is written twice when another `${` opens or the text ends first. |

**Mutants.**
- Each property of a passing run is broken by a plausible bug in the mapped code:
  - `Wake` → `WakeIf` (`if` in place of `while`) breaks `BlockingNeverEmpty`.
  - `Enqueue` → `EnqueueNoNotify` breaks `EventuallyDequeued`.
  - `EnqueueDelayedBody` → `EnqueueDelayedNoCancel` (the replaced id's timer is not cancelled) breaks `DeliveryHonoursSchedule`.
  - `TimerCallback` → `TimerCallbackNoErase` breaks `TimersOwnedByEntries`.
  - `ReadToken` → `ReadTokenNoVerbatim` breaks `DecodesToEncoded`.
  - `Merge` → `MergeNoRecurse` (a shared key overwritten instead of merged) breaks `MergeUnitesByPath`.
  - `hasExecutableContent` → `hasExecutableContentNoDefault` (no "" → SCXML namespace default) breaks `HasAgreesWithCreate`.
  - `JSCElement` → `JSCElementShifted` (the element of iteration `i+1` read) breaks `JSCForeachBindsEveryElement`.
- `TypeOK` is kept in each module as documentation of the state space. No run checks it, because no plausible code change breaks it.

**Bounds.**
- Three producers with three events each interleave enqueues with a waiting consumer and with a spurious wake-up, and reach a queue of several events from different producers while the consumer waits (268,842 states in about a minute).
- For the delayed queue, four schedules and five calls (4.9 million states in about a minute and a half) cover:
  - a replace of an armed timer;
  - a cancel;
  - a re-schedule after a cancel;
  - each of these racing an expiry and a running callback;
  - `stop()` with timers still armed;
  - two replaces in a row, or a cancel between a schedule and its replace, on the same id.
- The violations appear already with one id.
- Data:
  - values two levels deep, with two keys and arrays of up to two elements, include every nesting of objects in arrays and of arrays in objects;
  - the array index bug needs two arrays, which is why the pass run admits only one (`MaxArrays`).
- Plugins:
  - two factories (global and session) are the shortest parent chain;
  - a kind with an unnamed plugin and an invoker sharing the alias `lua` with a data model;
  - `MaxRegs = 3` registrations reach "registered in the parent only", "in the child only" and "in both";
  - `MaxOps = 2` data-model calls reach "assign an array, then foreach over it", "init fails, then foreach", "setEvent, then init of _event", and the like (the `setForeach` calls of a loop are not counted, so a loop always runs to its end);
  - one delivered event, built either blank or fully stamped by a child session, with an empty or a non-empty origin or invokeId.
- `JSCEventData`: every value one level deep over two strings (`''` among them), a number, the three other scalars, arrays over indices 0 and 1 (sparse ones included), and objects over the names `a` and `1`. Each of the three failures needs only one level, and deeper values go through the same recursion.
- `LuaEventData`: every Lua value one table deep over the keys `1`, `2`, `1.5` and `a`, one string, one number, `true` and two functions. The key `1.5` casts to the same `int` as `1`, and two functions show `__tmpFunc` being overwritten.
- `replaceExpressions`: seven characters reach a closed expression followed by an unclosed one, nested `${`, and a `}` outside any expression.

**Fairness.**
- `EventQueue`: weak fairness on the consumer's steps. The interpreter's loop keeps calling `dequeue`. Producers owe nothing, and spurious wake-ups get no fairness.
- `DelayedEventQueue`: weak fairness on the client's own work and on the timer thread's work. Each thread runs when it is able to.
  - The client's *calls* (new operations) get no fairness.
  - `DummyFire` gets no fairness: in the code the dummy timer is due in a year.
- `FromJSON`, `DataMerge`, `Plugins`, `DataModel`, `JSCEventData`, `LuaEventData` and `ReplaceExpressions` check invariants only, so they assume no fairness. Their runs do not check deadlock, because every bounded sequence of calls ends.
- The pass run of the delayed queue does not check deadlock. The deadlock is real (`delayed_cancel_deadlock`), and after `stop()` the system really does stop.

## 4. Findings

1. **`EventQueue::dequeue(size_t blockMs)`** (EventQueue.cpp:36) converts blockMs to `bool`. A finite timeout blocks forever, which diverges from spec §4.1.
2. **`cancelDelayed`**, and `enqueueDelayed` when it replaces an id, call `event_del` while holding `_mutex` (EventQueueImpl.cpp:141 and :109). If that timer's callback has started and is blocked on `_mutex`, both threads wait forever.
3. **`stop()`'s `event_base_loopbreak`** (EventQueueImpl.cpp:179) is lost when it lands between `while(_isStarted)` and `event_base_loop`. `join()` then waits for the one-year dummy timer.
4. **`toJSON`'s text does not always decode back** (spec §3 and §7).
   - `fromJSON`'s array index (Data.cpp:150, :190) is one counter for the whole document, so a second array does not start at 0.
   - `jsonEscape` writes `\v` (Data.cpp:340), which is not a JSON escape. jsmn rejects the string, so `fromJSON` throws on `toJSON`'s own output.
5. **Reserved bindings are overwritten.**
   - Lua `init` (LuaDataModel.cpp:460) sets the name to nil before `assign` rejects it.
   - JSC `init`'s catch block (JSCDataModel.cpp:804) sets `_event` to undefined.
   - Lua `setForeach` (:414) bypasses the reserved check.
   - Spec §7 says a reserved binding is left unmodified.
6. **`replaceExpressions` duplicates text** (Factory.cpp:551). When a `${` opens, the code copies the text since `end`, but `end` only advances at a closing brace. TLC shows `$${${}` becoming `$$${null`.
   - An unclosed `${` after a substitution duplicates the text between the two.
   - A nested `${` also keeps the outer brace count (:548).

7. **Lua `<foreach>` skips element 0** (LuaDataModel.cpp:139, :411-415). `getDataAsLua` keys the table by the Data array's indices, which start at 0. `#` counts from 1, and `setForeach` reads `array[iteration+1]`, so element 0 is never bound. Spec §4.4 says every element is bound.
8. **JSC event data changes on the way** (JSCDataModel.cpp:513, :588-604, :505).
   - An empty string arrives as `undefined`, because `getDataAsValue` converts only a non-empty atom.
   - An object whose property names are all integers arrives as an array.
   - A sparse array arrives packed.
   - An empty object or array makes `getValueAsData` throw, so `evalAsData` (:719) sends the expression's text. The receiver runs it again (:523): the literal `{}` runs as a block and gives `undefined`.
   - Spec §3 says an Event's data is immutable once enqueued.
9. **Lua event data changes on the way** (LuaDataModel.cpp:76-78, :109).
   - `getLuaAsData` stores every function in the one global `__tmpFunc`, and the Data holds only that name. A table of two functions arrives as two copies of the second one. The code's comment calls this safe in the context of the current interpreter.
   - A number key is cast to `int`, so `1.5` becomes index 1. When key `1` is also present, `std::map::insert` keeps one entry and the other is lost.
   - Both break the same §3 property. They are checked in the same run as finding 8.

One further divergence was met but is not a run, because the run budget went to the findings above:
- `Data::merge` (Data.cpp:62) leaves an atom beside a merged compound or array. Spec §3 says exactly one part is populated.

## 5. Plan

Done:
- the queues (`EventQueue`, `DelayedEventQueue`);
- Data (`DataValue`, `DataMerge`, `FromJSON`, one run in `MCData`);
- the Factory and the two data models (`Factory`, `DataModel`), composed in `Plugins` with `eventToSCXML`;
- `replaceExpressions`;
- the `<foreach>` loop through `getLength`/`setForeach` (`DataModel`);
- JSC's script-value conversions for event data (`JSCEventData`).
- Lua's `getLuaAsData`/`getDataAsLua` round trip (`LuaEventData`), checked with the JSC part in `event_data`.

Next, in order of importance:
1. **Interpreter composition.**
   - Use the callbacks of InterpreterImpl.h to compose the two queues with a stepping thread and the producers of `Plugins`: `dequeueInternal`/`External`, `enqueueExternalDelayed` and `eventReady`.
   - The properties are that internal events go before external ones, and that a delayed send is delivered once or cancelled.
   - `InterpreterImpl.cpp` is not among the sources, so the locking of `eventReady`/`cancelDelayed` (the interpreter's `_delayMutex` against the queue's `_mutex`) could only be spec_modelled, and is not listed as a hazard until its code is available.
2. **Data models, further.**
   - JSC `getLength`'s cast of a double.
   - A JSC sender with a Lua receiver.
   - A comparison of the values Lua and JSC store for the same `assign`.
3. **Factory, further.** Alias collisions across registrations, and `getIOProcessors`' parent-first order.
4. **MicroStep.** Spec-modelled over a small fixed document: transition selection, exit/entry sets and done events. Its source is absent.

## 6. Not modelled

- The DOM binding files are generated glue.
- Logging, string formatting and libevent's internals beyond the semantics listed above are left out.
- `EventQueueImpl::reset/serialize/deserialize` are declared but their code is not among the sources.
- Real time: delays become "may expire at any time".
- The data models' `eval`, `getAsData`, `isValidSyntax`, `In()`, and the evaluation of arbitrary text by JSC's `evalAsValue` evaluate script code, so their meaning is the Lua or JavaScript interpreter's. Only the literals and `__tmpFunc` that the event-data conversions write, and the literals `[]` and `{}` that JSC's `evalAsData` falls back to, are evaluated in the model. `replaceExpressions` takes `getAsData` as a parameter.
- `Factory::getIOProcessors`, plugin loading (pluma) and `Data`'s node and binary fields.
