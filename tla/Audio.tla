--------------------------------- MODULE Audio ---------------------------------
(***************************************************************************)
(* Audio.m: the pool of OpenAL sources, the rolling counters that mark     *)
(* their handles, and the sounds scripts play, pause and stop.             *)
(*                                                                         *)
(* A handle packs the number of a source and the low bits of its counter   *)
(* into one integer; it is a pair here, as the packing loses nothing.      *)
(* OpenAL is external: it finishes a sound at any moment.  Audio.update    *)
(* looks at one source after the other; it is one step here, since what    *)
(* OpenAL does to a source matters only before or after that source's turn.*)
(***************************************************************************)
EXTENDS Naturals, Sequences

CONSTANTS Sources,    \* the number of sources (20 in Audio.h)
          Counters,   \* how many counters a handle can tell apart (2^15)
          MaxPlays    \* bounds the number of sounds played

ASSUME AudioAssumption == /\ Sources \in Nat \ {0}
                          /\ Counters \in Nat \ {0}
                          /\ MaxPlays \in Nat

Source == 1 .. Sources

VARIABLES i, state,   \* the fields of each source
          al,         \* external: the state of each source in OpenAL
          issued,     \* the handles play returned, in order
          sound       \* ghost: the last sound of each source, by number

audioVars == <<i, state, al, issued, sound>>

AudioInit == /\ i = [s \in Source |-> 0]
             /\ state = [s \in Source |-> FALSE]
             /\ al = [s \in Source |-> "initial"]
             /\ issued = <<>>
             /\ sound = [s \in Source |-> 0]

handleForSource(s, counter) == [source |-> s, counter |-> counter % Counters]

(* Mutant: the low bits of both counters are compared. *)
RefersByLowBits(handle, s) == handle = handleForSource(s, i[s])

(* sourceForHandle: the handle's bits against the counter, all of it. *)
Refers(handle, s) == handle.source = s /\ handle.counter = i[s]

(* nextAvailableSource: the first source not in use. *)
Available(s) == ~state[s] /\ \A t \in 1 .. s - 1 : state[t]

(* woof.  Without an available source, or without the sound's asset, it    *)
(* returns 0, which refers to no source, and changes nothing.              *)
Play(s) ==
  /\ Len(issued) < MaxPlays
  /\ Available(s)
  /\ i' = [i EXCEPT ![s] = @ + 1]
  /\ state' = [state EXCEPT ![s] = TRUE]
  /\ al' = [al EXCEPT ![s] = "playing"]
  /\ issued' = Append(issued, handleForSource(s, i'[s]))
  /\ sound' = [sound EXCEPT ![s] = Len(issued) + 1]

(* l_pause and l_stop with any handle play ever returned. *)
Pause(k, s) ==
  /\ Refers(issued[k], s)
  /\ al[s] = "playing"
  /\ al' = [al EXCEPT ![s] = "paused"]
  /\ UNCHANGED <<i, state, issued, sound>>

Stop(k, s) ==
  /\ Refers(issued[k], s)
  /\ al[s] \in {"playing", "paused"}
  /\ al' = [al EXCEPT ![s] = "stopped"]
  /\ UNCHANGED <<i, state, issued, sound>>

(* OpenAL comes to the end of a sound. *)
Finish(s) ==
  /\ al[s] = "playing"
  /\ al' = [al EXCEPT ![s] = "stopped"]
  /\ UNCHANGED <<i, state, issued, sound>>

(* AL_BUFFERS_QUEUED exceeds AL_BUFFERS_PROCESSED until a source stops. *)
Queued(s) == al[s] # "stopped"

(* Mutant: only the first source in use is looked at. *)
UpdateFirst ==
  /\ state' = [s \in Source |->
                 state[s] /\ (Queued(s) \/ \E t \in 1 .. s - 1 : state[t])]
  /\ UNCHANGED <<i, al, issued, sound>>

update ==
  /\ state' = [s \in Source |-> state[s] /\ Queued(s)]
  /\ UNCHANGED <<i, al, issued, sound>>

AudioNext == \/ \E s \in Source : Play(s) \/ Finish(s)
             \/ \E k \in DOMAIN issued, s \in Source : Pause(k, s) \/ Stop(k, s)
             \/ update

(* Engine.update calls update every frame; OpenAL finishes what it plays.  *)
AudioSpec == /\ AudioInit /\ [][AudioNext]_audioVars
             /\ WF_audioVars(update) /\ \A s \in Source : WF_audioVars(Finish(s))

--------------------------------------------------------------------------------
AudioTypeOK == /\ i \in [Source -> Nat]
               /\ state \in [Source -> BOOLEAN]
               /\ al \in [Source -> {"initial", "playing", "paused", "stopped"}]
               /\ issued \in Seq([source : Source, counter : 0 .. Counters - 1])
               /\ sound \in [Source -> 0 .. Len(issued)]

(* Audio.m:139: "increment the rolling counter so previous handles are     *)
(* invalidated": a handle never reaches a later sound of its source.       *)
HandlesKeepToTheirSound ==
  \A k \in DOMAIN issued, s \in Source : Refers(issued[k], s) => sound[s] = k

(* A source that still has a sound to play is not given to another one     *)
(* (Audio.update reclaims it, nextAvailableSource hands it out).           *)
SoundingIsInUse == \A s \in Source : al[s] \in {"playing", "paused"} => state[s]

(* Audio.update gives every source back once its sound has ended, unless a *)
(* script leaves the sound paused.                                         *)
SourcesReturn ==
  \A s \in Source : state[s] ~> (~state[s] \/ al[s] = "paused")

===============================================================================
