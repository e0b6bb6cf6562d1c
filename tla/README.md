# A verification of GreyBox

GreyBox is a 2D game engine for Mac OS X: Objective-C and Cocoa around OpenGL,
OpenAL, the Chipmunk physics library and Lua 5.1. A project is a bundle of scenes,
assets and Lua scripts; the engine runs the scripts' callbacks frame by frame. This
directory holds TLA+ models of the engine's own code (`src/Core`) and of the Lua that
runs its scripts (`src/Lua`, which the engine has changed: methods of Objective-C are
functions of it, and two of its files are compiled as Objective-C), configurations that check them with
TLC, and theorems about them that TLAPS proves. A `.m` file without a path is in
`src/Core`, save `ldo.m` and `lapi.m`, which like the `.c` files are in `src/Lua`.

The repository has no tests. What the models are held against are the comments in the
code, `README.org`, the assertions in the code, the definition of the language and
what a script can see.

## 1. The system

### 1.1 Components

| component | state | operations | it is correct if |
|---|---|---|---|
| **Project**, **Asset** (`Project.m`, `Asset.m`) | load queue, `NSConditionLock`, `m_assets`, `m_defaultAssets`, one reference count per asset | `load_assets`, `unload_assets`, `is_load_complete`, lookup by name and class; the loader thread `assetLoader` | the main thread, which reads the dictionaries without the lock, never meets the loader in them after it was told that loading is complete; no call blocks for ever; names and memory agree after any sequence of commands |
| **Engine**, **Intro** (`Engine.m`, `Intro.m`) | current and pending scene, stage and timer of the splash screen | timer -> `advance`, `render`, `update`; `loadScene`; `quit` | a scene is entered in the frame that asked for it; the splash screen ends |
| **Input**, **Display** (`Input.m`, `Display.m`) | down state and hit count of keys and buttons, pointer position | Cocoa events; `flush` at the end of a frame | each press is reported to one frame; what is held stays down |
| **Scene**, **Layer**, **Actor**, **Component**, **Behavior** | layers in order of z, two lists of actors per layer, `m_dead`, `m_enabled` | spawn, destroy, enable and disable a component, the callbacks start / collide / advance / gui / update / leave | each actor gets its callbacks in order and once while scripts change the lists in the middle of the loops |
| **World**, **RigidBody**, **Collider** | bodies and shapes in the Chipmunk space, two removal queues, a post-step callback | step, enable, disable, start and leave of a component | a collision is never reported to an actor that is gone |
| **Audio** (`Audio.m`) | 20 OpenAL sources, each with a rolling counter | play, pause, resume, stop by handle; `update` | an old handle never reaches a later sound; every source comes back |
| **Emitter** (`Emitter.m`) | a pool of 500 particles, age and total | `advance`, start, stop | ageing once a frame although the loop swaps particles; a finite emitter ends |
| **Script** (`Script.m`) | Lua threads and environments, compiled files in the registry, the Lua stacks | load with and without namespace, call, register, push | callbacks of threads that share a file stay apart; stacks balance, but for the one fault of a failing namespace |
| **Texture**, **Atlas**, **Sprite** | frames by number, animations; an atlas pointer, frame and time per sprite | load; set frame, play, advance | names find the cells cut for them; animations show theirs in order, to the end |
| **Camera** | a stack of projections | push, pop, origin, position, scroll, zoom | what was pushed comes back unchanged |
| **Font** | pages and glyphs | load; draw and measure a string | text is drawn with the glyphs the font wrote |
| **GUI**, **Skin** | whether primitives draw; the widgets are immediate-mode | start, stop; primitives, widgets | the gui is drawn in pixels of the display |
| **Prefab**, **Scanners** (`src/Utilities`) | parsed components and tags; none | parsing | - |
| **Sound**, **Clock**, **Random** | an OpenAL buffer; times; a seed | load; tick; numbers | - |
| **Network**, `src/Support`, `src/Resources`, `src/Tools` | a placeholder class, the entry point, data | | - |
| **Lua, memory** (`lgc.c`, `lfunc.c`, `lstring.c`, `lstate.c`, `lmem.c`) | colours and lists of the collector, the string table, open upvalues, `totalbytes` | the steps of a collection, barriers, interning, finalizers, `lua_close` | what is referred to is not freed, what is garbage is, a finalizer runs once and first |
| **Lua, compiler** (`llex.c`, `lzio.c`, `lparser.c`, `lcode.c`, `lopcodes.*`) | the lexer's place and line, blocks, registers, pending jumps, constants | tokens, every production, every instruction emitted | a program means what it says, on every way through it |
| **Lua, machine** (`lvm.c`, `ldo.m`, `ldebug.c`, `ltm.c`, `ltable.c`, `lobject.c`) | stacks and call frames of coroutines, tables, counts of calls | instructions, calls, metamethods, errors, coroutines | frames stay apart, limits raise errors, tables keep what is set |
| **Lua, compiled files** (`ldump.c`, `lundump.c`) | the place in a file | dump, undump, code check | a function comes back as it was, a part of one does not |
| **Lua, libraries** (`lbaselib.c`, `ltablib.c`, `lstrlib.c`, `lauxlib.c`) | arguments and results on the stack, captures, buffers | the functions of the library | they answer what they should, and read and push no further than they may |
| **Lua, the rest** (`lapi.m`, `liolib.c`, `loslib.c`, `lmathlib.c`, `ldblib.c`, `loadlib.c`, programs) | | the API; calls of the C library | - |
| **Chipmunk** (`src/Chipmunk`) | vendored headers | | external |

### 1.2 How they interact

There are two threads. The main thread runs Cocoa's event loop: window events go
through Display to Input, and a timer steps the Engine. A frame is

1. `advance`: the clock, the World's step (collisions call scripts), the advance of
   scene, layers, actors and components (which call scripts), Sprites and Emitters;
2. `render`: the scene through the Camera, then the gui callbacks between
   `GUI.startRendering` and `stopRendering`;
2. `update`: Audio, the scene's layers (removal of dead actors, update, start of new
   actors), a pending scene is entered, Input is flushed.

Almost everything that changes state is done by Lua scripts inside these loops,
re-entrantly: a callback may spawn and destroy actors, add layers, load scripts and
assets, play sounds or quit. The second thread is the loader of Project. It shares the
load queue (under the condition lock) and the asset dictionaries (without it).

Lua runs in the main thread. Script hands it files, which the lexer takes in blocks and
the compiler turns into functions; the machine executes them on the stacks of one Lua thread
per script, calls methods of the engine, which may call Lua again on the C stack, and
lets the collector do a step whenever memory was allocated. So every allocation in the
middle of an operation is a place where the collector may run, and every metamethod a
place where a script may.

### 1.3 What is hard

- *Interleaving.* Loader against unlocked lookups and polls; scripts against the loops
  that call them; events against frames.
- *Lists that change under a loop.* Layer's and Emitter's swap-removal, the enumeration
  of the load queue, the removal queues of World.
- *Stale references.* Handles of sounds, the user data of shapes, animations inside an
  atlas, compiled functions shared by threads.
- *Partial failure.* One asset of a group; a script that fails inside nested loads.
- *Liveness.* Condition waits, sources that must come back, actors that must start and
  leave, emitters, animations and the splash screen, which must end.
- *Edges.* A 15-bit counter, a full pool, times that are larger than a frame; a text, a
  pattern or a compiled file that ends in the middle of something.
- *Pointers that move or die.* Lua stacks that grow during a call, hash nodes that move
  during a rehash, objects that become garbage while a collection is under way.
- *Code that is patched after it was written.* Jumps, `nil`s and comparisons that the
  compiler joins or turns around when it sees what comes next.

`PROJECT.json` lists each at its line, with the properties that cover it or the reason
why none does.

## 2. The modules

| module | models | composed with |
|---|---|---|
| `AssetStore` | abstract: what the store of assets promises to scripts | |
| `AssetLoader` | Project's lock, queue, dictionaries; both threads | implements `AssetStore` |
| `ActorLife` | abstract: the life of an actor as its script sees it | |
| `SceneFrame` | the loops of a frame over layers and actors | implements `ActorLife` |
| `World` | bodies, shapes, removal queues, the post-step callback | |
| `EngineLoop` | frames, pending scenes, splash screen, input | |
| `Audio` | sources, counters and handles | |
| `Emitter` | the particles' pool and the life of an emitter | |
| `Script` | threads, environments, compiled files, stacks | |
| `Atlas` -> `Sprite` | frames and animations; what a sprite shows | `Drawing` |
| `Camera`, `Font` | the stack of projections; pages, glyphs and strings | `Drawing` |
| `Drawing` | the frame that draws: loader, sprite, camera, font and gui together | extends the four above |
| `LuaGC` | the collector with upvalues, strings, threads and finalizers, and what scripts do between its steps | |
| `LuaOpcodes` -> `LuaCode` -> `LuaParser` | instructions; the code generator; the grammar | compiled programs go to `LuaRun` |
| `LuaOpcodes` -> `LuaTable` -> `LuaDo` -> `LuaVM` -> `LuaLib` -> `LuaRun` | tables; stacks, calls and errors; instructions and metamethods; libraries; the machine that runs | |
| `LuaMap` | abstract: a map, and a traversal of it | |
| `LuaTableUse` | one table under any sequence of calls, with the collector and a traversal | extends `LuaTable`, implements `LuaMap` |
| `LuaDump` | compiled files and the code checker | `LuaRun` |
| `LuaSemantics` | abstract: what a program means, by its syntax tree | `LuaRun` is held against it |
| `LuaMatch` -> `LuaString` | pattern matching; the string library and its buffers; what a pattern means (`Ways`), which the matcher is held against | |
| `LuaLex` | the lexer, on input that comes in blocks | with `LuaString` in `MCLuaText` |
| `MC*` | constants for TLC, and the programs that are run (`MCLuaVM`) | |
| `*_proofs` | the theorems of a module | |

`A -> B` means that B extends A. The parser of `LuaParser` starts from tokens and `LuaLex` ends with
them; `LuaGC` has a heap of its own, and the objects of `LuaDo` are never collected.
Composing these would multiply their states and add no step that either of them lacks.

Names in the modules are those of the code. `PROJECT.json` ("map") names the lines
each definition stands for. Definitions marked as mutants in the modules are plausible
bugs (a dropped guard, a swapped order) that no specification uses; each property is
known to fail when the definition it stands beside is replaced by one of them.

### How state and actions correspond to the code

**AssetLoader.** `condition` and `owner` are the `NSConditionLock`. A command of a
script is several steps of the main thread (`mainPc`): it blocks on the condition,
then holds the lock, then changes the queue or the dictionaries. The loader
(`loaderPc`, `pos`) takes the lock when the condition is 1, and for each asset of the
queue loads it (`Load`, which may fail) and, when it came into memory by this
reference, stores it in the dictionaries (`Store...`). A lookup of the main thread takes
two steps, without the lock; `torn` records that a write of the loader overlapped it.
`known`, `asked` and `claim` are history: what the script was told since its last load command,
which command was the last for a group, and which group's load was the last command to touch
a name.

**SceneFrame.** `phase`, `li` and `ai` are the nested loops; `running` is the script
that was called: of which actor, which callback and, as a callback goes to an actor's behaviors one
after the other, of which behavior. `Tell` is the loop of `Actor.m:305-387` over the components; it passes over
those that are not in `enabled` when their turn comes. While a script runs it may take any number of the steps `Spawn`,
`Destroy`, `AddLayer` and `SetEnabled` (of a component with a name); `Return` goes back to the loop. `m_actors`, `m_newActors` and
`newFrameActors` are the two lists and the local copy of `Layer.update`. `stage` is
history for the refinement; `doomed` remembers who was dead when the update of a layer
began.

**World.** A body's entry in `bodies` counts how often it was added to the space: the
code does not ask Chipmunk whether it is there. `callback` is whether the post-step callback is still
registered: the space forgets a callback when it has run it.

**EngineLoop.** `phase` separates the event loop from the three parts of a frame.
`fresh` and `due` are history: presses since the last frame began, and presses this
frame is due. `pointer` is where the pointer really is, `position` what Input knows.

**Audio.** `i` is the counter of a source, without a bound; a handle has its remainder.
`al` is OpenAL's state of a source, which finishes sounds when it likes. `issued` and
`sound` are history: every handle given out, and the one a source is playing.

**Emitter.** A frame is `BeginAdvance`, one `AgeParticle` or `KillParticle` for each
index, `EndAdvance` with the particles that are emitted. `since` is a second clock in each
particle, which follows the particle and not the index.

**Script.** `calls` is the stack of running scripts and `stack` the Lua stack of each
thread, with tokens for functions, environments and messages. A load compiles a file
once and clones the function afterwards; the environment of a function decides where
the callbacks of a script go (`callback`). `under` is how far below the base of its thread a stack begins after pops too many, `failed` history.

**Drawing.** The loader thread adds frames, animations, pages and glyphs one element at
a time. `phase` tells where a frame is; the sprite's time passes in `Advance`, scripts
call sprite and camera at any point where they run. The camera's blocks have addresses,
so that two entries of its stack could share one. `playing` and `shown` are history: the elements of the
document that the animation and the frame come from.

**LuaGC.** `marked` has the colour of each object, and "free" before it exists; the lists
of the collector are sets, and `Rank` says which object a step takes. A step of the collector is
one of `singlestep`, where `atomic` is cut at its calls of `propagateall`; scripts run
between steps and not within `atomic`. Operations of scripts carry the barriers
of the code (`lua_rawset`, `SETUPVAL`, `lua_setmetatable` ...). `doomed` (what was unreachable when a
cycle began) and `called` are history. `full` is the way through `luaC_fullgc`, and
`closing` the one through `lua_close`.

**LuaTable, LuaTableUse.** A table is the record of its vectors; a loop over a chain, over the entries of `resize` or
of a search is a function of how often it has been run. `luaH_set` and `luaH_setnum` give the table with
a place for the key, and `Store` writes what the C code writes through the pointer they return. `Set` is the
whole of `luaV_settable` on a table, `SetElsewhere` where it goes on to `__newindex`, `Collect` the
clearing of `traversetable`, `Traverse` a call of `next`. `at` is the key a script passes to `next`, and
`seen` is history.

**LuaParser, LuaCode.** A C function is an operator from a state of the compiler to the
next; `S.e` is the expression it works on. An error, a long jump in the code, ends the text.

**LuaDo, LuaVM, LuaLib, LuaRun.** The state is one record, `machine`. An instruction is
an action (`Moves`, `Computes`, `Branches`, `Calls`), a function of the library a frame on
the C stack `C`, which goes through stages where it calls Lua; `Returns` and `Catches` take
frames off. So the long jumps of errors and the recursion of `luaV_execute` are explicit, and the
counts `nCcalls` that limit them are the code's. A program is compiled, or compiled, saved and read back, perhaps
from a file that was cut short, and then run.

**LuaString.** `call` is a call of a function of the library; the matcher, which recurses, is the
operator `match` of `LuaMatch`; one attempt at a place of the source is a step. `answers` are those
of a Lua function that `gsub` called. `b` is the buffer, with the most values it ever pushed.

**LuaLex.** `ls` is the lexer with its input: `ls.n` counts down what is left of the block,
and reading after the end is recorded as the error "outside", as the code's unsigned count wraps there.

## 3. The runs

| run | distinct states | what it asks and shows |
|---|---|---|
| `assets` | 222 thousand | The unlocked polls and lookups are safe once completion was reported, the queue is stable while it is enumerated, every call returns, the last command for a name decides, and the loader implements the atomic store. |
| `scene` | 452 thousand | No actor is lost or skipped by the removal loop, and the behaviors of each that are enabled at their turn get its callbacks in order and once: spawned actors start, destroyed ones leave. |
| `services` | 316 thousand | Handles keep to their sound beyond the point where the counter outgrows them, and sources come back; an actor is freed with its shape in the space only if its body never was there, in every order of spawning, toggling, stepping and leaving. |
| `loop` | 56 thousand | Each press is reported to exactly one frame, and the splash screen ends. |
| `emitter` | 80 thousand | Each particle ages once a frame, the pool does not overflow, a finite emitter ends. |
| `script` | 1.96 million | Callbacks are a thread's own; every stack is left as it was found however loads and calls nest and fail, but for the value that each failing load with a namespace takes off too much. |
| `drawing` | 124 thousand | The cells of an animation come in their order, and one that does not loop ends on its last cell, however long frames are and whatever `set_frame` puts in between; text is as written. |
| `lua_gc` | 213 thousand | Nothing that is referred to is freed or dead, the lists of the collector share nothing, garbage goes in one cycle, finalizers run once and before their userdata are freed. |
| `lua_close` | violated | `totalbytes` is not back at its start when a state is closed to which a method was pushed. |
| `lua_vm` | 25 thousand | Programs print what they mean and end as they should, compiled or read back; a file that is cut short is refused; the assertions of the machine hold, frames stay apart, open upvalues are live locals, `table.sort` loses nothing. |
| `lua_table` | 13 thousand | Whatever is set, cleared, looked up, collected and traversed in any order, a table stays well formed and a map, no metamethod is missed, its length is a border, and `next` visits each field once. |
| `lua_text` | 647 thousand | The string library answers what patterns mean, reads no further than pattern and subject go and stays within its stack; the lexer finds the tokens and lines of a text in blocks of any size. |

### Bounds, and why they are enough

- `assets`: a group of a texture and a sound, one whose texture has the same name, one that
  the manifest does not know, and the engine's own defaults; references up to 2 (`MaxRefs`), so that an asset can be
  loaded when it is in memory already. Two groups are what it takes for one command to
  disturb another group. `Reload` allows a load of a group that is loaded; any group
  may be unloaded at any time.
- `scene`: three actors in two layers. The removal loop needs three: the one removed,
  the last, which takes its place, and one below; a layer is added before or
  behind another one between frames. One actor has two behaviors, so that the first can enable or
  disable the second in the middle of a callback; one has a behavior that begins disabled, so
  that it is started, updated and removed with nobody to tell until a script enables it.
- `services`: the space and the sources share nothing, so a behaviour is one of the one or of the other.
  The sources: counters that wrap after 3 values and 6 plays, so that a source passes
  the wrap (`MaxPlays`).
  The space: three actors, one with a body and a shape, one with a body and one with a shape only, each enabled or not by
  its prefab; scripts toggle a body
  `MaxQueued` (one) times beyond what starting and leaving do, enough for a body to be
  in the space twice and in the queue twice.
- `loop`: a key, a button, two positions, at most two presses of each in a frame
  (`MaxHits`), time steps from zero to one longer than a stage of the splash screen.
- `emitter`: a pool of 3, a rate of more than one particle per tick, time steps of up to
  2 ticks where lives are 1 to 3: the pool fills, and particles die in the frame after
  they were born and several at once. `MaxAge` bounds the age of an emitter that
  lives for ever; it is beyond what a finite one reaches.
- `script`: three threads, two files and a namespace, nesting to depth 2, at most one
  argument, as in all of the callers. `MaxUnder` bounds how often loads with a namespace fail: twice on one thread, or once on each of two.
- `drawing`: two frames and two animations that share a name, an animation that loops and one that is
  faster than the frame rate; time up to `MaxDuration`, beyond the end of the longest animation by two of the longest frames, and once around the one
  that loops; a
  stack of two projections; a font with replaced, missing and skipped pages and replaced glyphs.

- `lua_gc`, `lua_close`: three heaps that scripts have built (a weak table with a userdata that has a
  finalizer, as its key and value; a closure over a level of a coroutine; a function with a nested one and a
  constant), and any two operations of scripts (`MaxSteps`) at any points of one collection after
  another. A broken barrier needs one operation, to move a reference behind the collector's back;
  the second one drops the old reference. One node per table, one level per stack. `GCSWEEPMAX` is 5,
  so that a list is swept in several steps. The two whites are symmetric.
- `lua_vm`: 28 programs, each written for a part of the language where the compiler patches what it wrote, the
  machine leaves a frame in an unusual way, or a limit is met; each runs from its source, from its
  dump and from the dump cut short at every item. Operands of 5 bits make constants
  too far for an operand after 16, `MAXSTACK` 15 registers, a `SETLIST` takes 2 items,
  frames grow after 8 calls and the C stack ends after 12.
  The `coin` of the host makes every choice of a comparison function.
- `lua_table`: four keys, of which 1, 4 and `"__index"` collide in a node vector of any size that is reached, one of them a string,
  which the collector turns into a dead key; one value, beside nil. `MAXASIZE` is 2 and `MAX_INT` 4, so that 4 is an index that
  goes to a node and that the doubling of `unbound_search` leaves the integers. Nothing bounds the number of steps.
- `lua_text`: every text of up to three marks as a pattern, most malformed; well-formed patterns of
  up to two items in every kind of capture; sources of up to three letters; three captures at most,
  buffers of one character and 6 slots of a stack, so that buffers are joined. For the lexer, texts of up to five or
  six characters of the small alphabets its functions tell apart, in blocks of 1 and of 3.

`CHECK_DEADLOCK FALSE` stands where the application exits (`loop`), where a state is closed or the bounded
operations are used up (`lua_gc`, `lua_close`), and where programs and calls end (`lua_vm`,
`lua_text`).

### Fairness, and why the code justifies it

- `AssetLoader`: weak fairness of the loader and of a command that a script has begun.
  Both are threads of the operating system that run whenever they are not blocked;
  scripts themselves owe nothing.
- `SceneFrame`: weak fairness of the loops and of `Return`: the timer steps frames and
  scripts return (one that does not freezes the engine). `ActorLife` asks for strong fairness of start and
  leave, as neither can happen while a script runs.
- `Audio`: `update` runs every frame; a sound that plays finishes.
- `EngineLoop`, `Emitter`, `Drawing`: frames follow one another (weak), and the time step
  is not zero for ever (strong: a frame may have a step of zero, so the action that passes time
  can be disabled in between).
- The modules of Lua state no fairness: the machine and the collector run when they are called.
  `FreedInCycle` says what a cycle that ends has done.

## 4. The proofs

TLAPS proves the following for every value of the constants that satisfies the named
assumptions of the modules: any number of assets, actors, layers, sources, threads,
any pool, rate or bit width, any document and string, any fields and hash of a table. Each proof module defines an inductive
invariant (`IInv`, or a name of its own where a module has several)
and proves `Init => IInv`, `IInv /\ [Next]_vars => IInv'` (theorem `Invariance`), and
from it the theorems; none of the safety properties is inductive as it stands.

| module | theorems | the invariant, and why it is needed |
|---|---|---|
| `AssetLoader_proofs` | `Typing`, `Completeness`, `Queueing`, `Finding`, `Lookups`, `LastCommand`, `Implementation` | `LockInv`: who holds the lock at which step, and that condition 0 means an empty queue. `CompleteMeansQuiet` speaks of threads that do not take the lock, so it needs what the lock's other users left behind. `Queueing` is an action property. `QueueInv`: the queue is the assets of one group; without it a failed load could be of an asset nobody asked for. `LastCommand` needs `SettledInv` as well: for the assets of a group that the loader has dealt with, names agree with memory and with the last command that touched them, and a name the loader has yet to write is claimed by the group that is being loaded. |
| `SceneFrame_proofs` | `Typing`, `Once`, `Kept`, `Removal`, `Implementation` | `LoopInv`: where the loop indices may be. `StageInv`: in which list an actor of each stage is, at each point of an update; needed to see that spawning and adding meet no actor that is there already. `SweepInv`: above its index the removal loop has left nobody who was dead. |
| `Engine_proofs` (`EngineLoop`, `Audio`, `World`) | `LoopTyping`, `Reporting`, `Entering`, `Holding`; `AudioTyping`, `Handles`, `InUse`; `WorldTyping`, `Colliding` | Of the loop: a pending scene is entered in its frame; no event is handled inside a frame. `Holding` is an action property. Of the pool of sources, `IssuedInv`: a handle comes from a value the counter has had, and if the counter still has it, it is the last one. Of the space, `FirstStepEmpty`: nothing is there in the only step that drains the queues; `DisabledAreQueued`, `LeftAreQueued`: a body out of use is in the queue, which retains its actor. The three share a module, no variable. |
| `Drawing_proofs` (`Drawing` with `Atlas`, `Sprite`, `Camera`, `Font`) | `Numbering`, `Finding`, `Stopping`, `Ordering`, `Below`, `Writing` | `AtlasInv`: the number kept for a name is that of the cells made for the last element of this name so far. `SpriteInv`: what plays are cells of `playing`; numbers of frames stay good while an atlas grows. `Paced`: an animation shows the cell of the time at the advance before, at most `MaxDelta` ago. `Stacked`: the blocks on the camera's stack are distinct. `FontInv`: see below. |
| `Emitter_proofs` | `Typing`, `Ageing`, `NotOverdue`, `Ending` | `Within`, `Account`, `Running`: ages and the total against the rate, which bounds how many particles an emitter can have asked for. |
| `LuaGC_proofs` | `Once`, `Disjoint`, `FinalizedBeforeFreed`; `NoDangling`, `Typed`; `GarbageFreed` | `Separation`: a userdata that is dead was separated by `luaC_separateudata` in this cycle's `atomic`, its finalizer has run if it has one that was pending, and it is still among what the sweep has to visit; one that is white after the separation, and so dead next, was separated too. It is what makes `FinalizedFirst` more than a guard of the sweep. `Calls`: what waits for its finalizer exists and was not finalized before; `Kinds` and `OneList` say which lists an object that turns gray may be in. `NoDangling` and `GarbageFreed` have invariants of their own, `HeldInv` and `Lost`, described below. For any heap, any number of objects and of operations between steps. |
| `LuaTable_proofs` (`LuaTable`, `LuaTableUse`) | `TypeCorrect`, `TablesFormed`, `LengthsAreBorders`, `FlagsAreRight`, `RehashesOnce`, `TableIsMap` | `Sane`: the chains of nodes have no cycle and do not join, each key is reached from its main position, and a live key before the dead one of the same name. `WellFormed` alone is not inductive: it says nothing of nodes without a value, which `newkey` writes to and `next` starts from. `GoingIn`: a traversal has visited exactly the fields before the place `findindex` gives. See below. |
| `Script_proofs` | `CallbacksAreOwn`, `StacksBalance` | a thread runs at most one script at a time (`OnceEach`), and the environment of a running script is its own (`OwnEnvironment`); a stack has fallen by the failed loads with a namespace (`Fallen`). |

`Implementation` of `AssetLoader` is the whole refinement of `AssetStore`, which states
safety only; that of `SceneFrame` is the safety part of `ActorLife`.

**No dangling references (`NoDangling`).** `HoldsAlive` says that what the roots and every object that
is alive refer to is alive. A collection keeps it for reasons that lie in three different phases,
and `HeldInv` has a conjunct for each:

- `Marked`, the invariant of the three colours, while the collector marks: a black object refers to no
  white one, what is gray is in a list, and the main thread and the registry are not white. The
  barriers of scripts (`luaC_barrierf`, `luaC_barrierback`) are what keeps it, and userdata that still
  wait for their finalizers since an earlier cycle are its exception, until `marktmu`.
- `Finishing`: what each call of `propagateall` in `atomic` has to leave marked, in the order of the calls, up
  to the point where the colours are exchanged. There, what is white and not marked becomes dead; `Marked`
  and `Finishing` give that nothing alive refers to it.
- `Sweeping`, `SweepList`: in a sweep, what is not of the current white is still to be swept, so that
  `Quiet` holds after it: all is of the current white, and no dead object can be met in the next cycle.
- `Colouring`: threads are never black, for scripts write to stacks without a barrier, and neither are
  open upvalues, whose values are on a stack; a closed upvalue is never gray, as it is in no list.
- `Callers`, `Chain`: nothing but the stack of the thread that called `coroutine.resume` holds the coroutine
  that runs. It is held by a chain of threads, each with the one it resumed on its stack, from the main thread to
  the one that runs. "Every set of threads that has the main thread and is closed under this has the running one"
  says so without a recursive definition.
- `Fields`: every reference is to something of its kind.

The proof has a lemma for every step of the collector and every operation of scripts, and three for
its helpers: what `Traverse` marks, what clearing a weak table removes (`Clears`), and what a sweep
leaves (`SweptAlive`). `Typed` follows from `IInv`, `HeldInv` and `Counts`; `totalbytes` is a number because
there are finitely many objects.
The assumptions are about the constants alone: an object is of one kind (`KindsAssumption`,
`TraversedAssumption`), there are two whites (`WhitesAssumption`), files refer to prototypes and
strings (`FilesAssumption`), heaps that scripts have built refer to what they
contain (`HeapsAssumption`), and there are finitely many objects (`BoundsAssumption`). TLC evaluates all of them in
`lua_gc`, where `HeldInv` and `Lost` were checked before they were proved.

**Garbage is freed (`GarbageFreed`).** `FreedInCycle` says that what is unreachable when a cycle begins is freed
when the cycle ends, apart from what was found again: `luaS_newlstr` and `luaF_findupval` turn a dead string or
open upvalue back, and a finalizer may put what it reaches anywhere. The invariant `Lost` follows what is
doomed through the phases:

- `Outside`: it exists, and is no root, no running thread, no userdata that waits for its finalizer, and not fixed.
- `Apart`: no other object that exists refers to it. Scripts keep this because they can only store what they have
  in reach (`Spared`).
- `Pale`: it is white while the collector marks, since only a root or an object that refers to it would get it
  marked; it is dead and still to be swept in a sweep; and none is left at the finalizers.

`Reachable` is a recursive function on sets of objects. To unfold it, `ClosureDefined` exhibits a function that satisfies
its equation, which needs an induction on the set of objects that are not yet in it; it is done by the
greatest counterexample (`Maximal`, from the well-founded order of the finite sets), as the
induction theorems themselves cannot be used. A string that is fixed is never freed: `Unreachable` leaves it
out. A full collection that gives up a cycle in its marking promises nothing for it, but begins another one.

Some theorems state an invariant that no run checks any more, because it follows from one that
is checked or is part of the inductive invariant: `Typing` of all modules but `Emitter`, `LoopTyping`, `AudioTyping`, `Finding`
(`FindsLoaded`), `Once` of `SceneFrame` (`NoDuplicates`), `InUse`
(`SoundingIsInUse`), `Entering` (`NoSceneWaits`), `Holding` (`HeldOverFrames`), `NotOverdue` and
`Ending` of `Emitter`, `Typed` of `LuaGC`, `Below` (`OnlyTopChanges`), and of tables `TypeCorrect`, `FlagsAreRight`
(a part of `TableOK`) and `RehashesOnce` (`RehashOnce`).

**What is drawn (`Finding`, `Stopping`, `Ordering`, `Below`, `Writing`).** `Finding` and `Stopping` prove
`NamesFindTheirCells` and `StopsOnLast` of `Sprite`: names find the cells of the document's last element of that name, and the
step that ends an animation leaves its last cell; `AnimationEnds` adds that it ends, which is liveness and stays with
TLC. `Ordering` is about quotients: `DivNext` says that a
step of time which is no longer than a cell's raises the number of cells that have passed by one at
most, `DivGrows` that it never lowers it. `Writing` is about `render`, a fold over the characters of a string. `FontInv`
says what is loaded so far stands for: a page with a number, its frame 0 for the last element of this number; a glyph,
the frame cut for the last element of its name, counted before it was added, on a page that is no hole.
It needs `NoHoles`, without which the loader thread meets a page that is not there. What the fold does with it is an induction over
the string, and `MapThenSumSet` in the property is a fold of its own, over a set whose elements it takes in
an order nobody knows. The library's definitions of both are unfolded here: `FoldExists` shows that
there is a function that satisfies a fold's equation, `SumAny` that a sum can be taken apart at any
element, and `PenStaysRight` what one character does. The inductions are by the least counterexample (`LeastOf`, `MinimalOf`). `FontInv` and the
other invariants were checked on `drawing` before.

`Atlas` assumes that `None`, which stands for a null pointer, is no number and no animation.

**Tables are maps (`TableIsMap`).** The other theorems about tables are steps to this one.

- `Chains` is about keys and links only: `ChainsTaken`, `ChainsLinked` and `ChainsMoved` are the three ways of `newkey`
  to place a key, `ChainsCollected` the collector. "Reaches" is said with the sets that are closed under
  the links, "has no cycle" with a rank that falls along them, so neither is a recursive definition.
- `NodeIs` and `PlaceGot` say what a search finds: the value of a field is that of the one place that has its key.
- `Refill` is the loop of `resize`: after so many turns the fields of the old table that were met are in the new one, with no
  others. A free node is left at every turn since the table was made for as many keys (`Room`, `Fitting`); hence
  `RehashesOnce`, and hence that the model may write `newkey` without recursion.
- `LengthFound` is about the two loops of `luaH_getn`. Halving keeps a border between its ends; doubling
  finds another node at each turn, so it ends before there are more turns than nodes (`DoublingEnds`).
- `NextVisits` and the lemmas before it say that the place of a traversal does not move while fields that have a value
  are changed or cleared and while the collector makes dead keys of theirs.

The loops are recursive functions in the model. That they have the values their equations say
is proved by exhibiting the function (`IterationExists`, `DoublesExist`), with an induction by the least
counterexample (`LeastOf`). The assumptions are that fields are neither nil nor dead keys and
hash to integers, that a numeric one is an index within the integers, and that twice the greatest array is within them
too (`SizesAssumption`; 2^26 and 2^31 - 3 in the code).

**Only model-checked.** Liveness (`NoneWaitsForEver`, `SourcesReturn`,
`SplashEnds`, `EndsByItself`, `AnimationEnds`, the fairness of `ActorLife`), which is out of the prover's
reach.
The compiler, the machine and the string library are recursive operators, which the prover
does not take: everything `lua_vm` and `lua_text` check stays with TLC.

## 5. What is not modelled, and why

- Chipmunk, OpenGL, OpenAL, Cocoa: external; they appear as the steps they can take.
- Parsing of XML and property lists, project settings, prefabs, and the string scanners.
  Constants of the models stand for the documents.
- Motion, colour, transforms, drawing order and all that only the eye sees.
- Widgets and skins; `Script.push` and the registration of methods; unloading of
  textures, fonts and sounds; `Clock` and `Random`.
- Floating point: times are ticks, quotients are exact, numbers of Lua are small integers.
- Of Lua: the pace of the collector (debts and thresholds) and emergencies (an allocation that fails
  is an error of the engine's process, which has no handler for it); collections inside the machine, which
  `LuaGC` has instead; hooks and line information, names in messages; `xpcall`, `setfenv`, userdata and the
  metatable of strings in the machine; `string.format` and `string.dump`, byte order and stripping of compiled files;
  the decimal point of the locale; the API, which forwards, and the libraries for input and
  output, the operating system, mathematics, debugging and packages.
- A text with a NUL: `check_next` (`llex.c:162`) asks `strchr`, which finds the NUL at the end of its set, and takes
  it for part of a number or of dots. What such a text means is not written down.
- Undefined behaviour without an outcome to model (an exception out of a Lua call, a
  freed pointer): where a model excludes the input that leads there, an assumption or
  a note under "hazards" says so.

## 6. What the work found

Shown by a run: `lfunc.c:162` takes back memory of a method in another size than `lfunc.c:34` allocated it, so
`lua_assert(g->totalbytes == sizeof(LG))` (`lstate.c:114`) does not hold, and `totalbytes`, which paces the
collector, drifts (`lua_close`).

Met while modelling the engine, without a run of their own:

- `Audio.m:80` compares the low bits of a handle with a whole counter: a source's
  handles are dead after 32767 sounds.
- `World.m:44` registers the callback that removes bodies once, so it runs for the first step only:
  a body queued later is not removed. It is also what keeps `CollidersExist` true: a queue that is never
  drained retains its actors for ever.
- `World.m:117-121`: nothing retains an actor for its shape. One with a Collider and no RigidBody, or one whose
  RigidBody its prefab disables and no script enables, is freed while its shape stays in the space (`Collider.m:44-56`;
  `World.m:77-80` says "first remove all collider shapes" and adds them), and the next collision is reported to it.
  `CollidersExist` says that this happens to no other actor.
- `Display.m:119`: no drag events, so the pointer position is stale while a button is held.
- `Script.m:276`: `logError` pops a message that was taken off before, so a script with a namespace
  that fails takes one value too many off its thread's stack, which then begins below the thread's base. Lua has one
  place there; `Engine.m:259` goes on with the next script after a failure, and the second one that fails has
  `logError` read a message from before the memory of the stack. `Balanced` counts it.
- A group that was loaded twice needs two unloads (references are counted), but the first one
  takes its names away already. Unloading a group that was never loaded takes away the names
  it shares with one that is: `LastCommandDecides` says that the last command for a name decides, not the last for its
  group.
- A component that is disabled when its actor starts and enabled later gets its other callbacks without a start
  (`Actor.m:308`), and one disabled before its actor leaves gets no leave: `ActorLife` promises callbacks
  to the behaviors that are enabled at their turn.
- A second load command blocks the main thread until the first load is done.
- `Layer.m:150` says "update the actors still alive", but an actor destroyed after the
  removal loop is updated once more.
- `README.org:70` has actors as rigid bodies from the start; `Actor.m:305` adds a body
  with the component only.
- `Script.m:550` would pass wrong arguments for two or more; all callers pass at most one.
- The compile cache knows a file by the last component of its path (`Script.m:194`).
- `Script.m:443` promises "all or nothing" and leaves an unfinished table.
- `Texture.unloadFromMemory` and `Sound.unloadFromMemory` keep names that are gone.
- `RigidBody.m:156` returns the inertia as the mass.
- `Font.m:165`: a glyph on a page that was skipped raises on the loader thread.
- `m_total` of an emitter counts particles that a full pool refused.

And while modelling Lua:

- `print(((1 or false) and true) or false)` prints 1. A constant that is true becomes a plain jump (`lcode.c:575-578`);
  `luaK_jump` adds the jumps that were to land there to its own list, and those bring the value of their own operand.
- `lvm.c:134-158` goes on with a pointer to the value of `__newindex` after `luaH_set` may have moved the nodes it
  points into, when a table is its own metatable.
- A coroutine that has not begun and whose resume would go too deep (`ldo.m:447`) loses its function with
  its arguments (`ldo.m:434`): it is dead from then on, while one that has yielded can be resumed later.
- `gsub` with a replacement that ends in "%" adds the NUL behind it (`lstrlib.c:599`).
- `auxsort` reads the element beyond its bounds before it finds the comparison function invalid.
- `check_next` takes a NUL for a member of any set (`llex.c:162`).
- `llex.h:58` calls `lastline` the "line of last token 'consumed'"; after a token of lookahead it is the line of the
  token ahead.
- A file whose first line begins with "#" and has no newline counts one line more than it has.
- Finalizers that run while the state is closed may create userdata, which are freed without theirs
  (`lstate.c:207`).

## 7. The plan

Done, in this order: the loader and its abstract store, the frame of a scene and the
life of its actors, audio, the physics world, the run loop with its input, emitters,
scripts, drawing; then Lua: the collector and the first theorems about it, tables, the compiler and the
machine with their reference semantics, compiled files, the libraries, strings and patterns, the lexer; the
proofs about all of these that do not need recursion, those about tables last.

Next, the most important first:

1. The collector under the machine: one step of `LuaGC` at each allocation of `LuaRun`, over one heap.
2. `TextureMemory`: the life of textures and sound buffers over unloading and loading again,
   between the two threads; instanced beside `AssetLoader`.
3. `Widgets`: GUI and Skin on the input of `EngineLoop`: which press a button sees, and
   what it costs that widgets compare an old press with a new position.
4. `ScriptValues`: `push` and `registerObject`, as operators on stacks, with the balance
   of the stack for nested values; `string.format`; the scanners.
5. A composition of `EngineLoop`, `SceneFrame` and `World`: the scene's actors in the
   space, over the change of scenes, with the abstract `ActorLife` as its property.
