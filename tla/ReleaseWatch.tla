---------------------------- MODULE ReleaseWatch ----------------------------
(***************************************************************************)
(* How a running host notices its successor: ReleaseRuntime::observe of    *)
(* src/crates/libmcp/src/rollout.rs, standalone and managed, against what  *)
(* others do to the executable's path or to the release channel.           *)
(*                                                                         *)
(* A standalone host sees a file at the path it was started from.  Someone *)
(* may rename a finished file onto it, or write one there, in pieces that  *)
(* are at most MaxPause apart: that this is less than SettleTime is what   *)
(* the settling time counts on.  Time passes in ticks.                     *)
(***************************************************************************)
EXTENDS Integers

CONSTANTS
    Pieces,        \* of an executable's file
    SettleTime,    \* SUCCESSOR_SETTLE_TIME
    MaxPause,      \* the longest pause of one that writes an executable
    Releases, Incumbent, Unpublished,   \* of a managed host: generations
    Nothing,       \* no file, no candidate, no target
    Changes        \* the bound: on the changes of path and channel

ASSUME WatchAssumption ==
    /\ Pieces \in Nat \ {0} /\ Changes \in Nat
    /\ MaxPause \in Nat /\ SettleTime \in Nat /\ MaxPause < SettleTime
    /\ Incumbent \in Releases /\ Unpublished \subseteq Releases \ {Incumbent}
    /\ Nothing \notin Releases

VARIABLES
    mode,       \* "standalone" or "managed"
    path,       \* the file at the path: [inode, length]
    quiet,      \* the ticks since it was last written to
    channel,    \* the release that the channel selects
    published,  \* the releases that verify
    changes,    \* left
    settling,   \* [fingerprint, age] of the candidate
    successor,  \* the armed target: a release, or the path
    observed    \* the last ReleaseObservation

watchVars == <<mode, path, quiet, channel, published, changes, settling, successor, observed>>
outsideVars == <<mode, path, quiet, channel, published, changes>>

\* The file that was started
Own == [inode |-> Changes + 1, length |-> Pieces]

Complete == path # Nothing /\ path.length = Pieces

WatchInit ==
    /\ mode \in {"standalone", "managed"}
    /\ path = Own /\ quiet = 0
    /\ channel = Incumbent /\ published = Releases \ Unpublished
    /\ changes = Changes
    /\ settling = Nothing /\ successor = Nothing /\ observed = "Incumbent"

-----------------------------------------------------------------------------
(* What others do                                                          *)

Changed ==
    /\ changes > 0 /\ changes' = changes - 1
    /\ UNCHANGED <<mode, settling, successor, observed>>

\* The file is removed, replaced by a finished one or by one that is still to
\* be written, or the one that was started is back.
PathChanges ==
    /\ mode = "standalone"
    /\ Changed
    /\ path' \in {Nothing, Own} \cup [inode : {changes}, length : {0, Pieces}]
    /\ quiet' = 0
    /\ UNCHANGED <<channel, published>>

FileGrows ==
    /\ mode = "standalone" /\ path # Nothing /\ ~ Complete
    /\ path' = [path EXCEPT !.length = @ + 1]
    /\ quiet' = 0
    /\ UNCHANGED <<mode, channel, published, changes, settling, successor, observed>>

ChannelChanges ==
    /\ mode = "managed"
    /\ Changed
    /\ \/ channel' \in Releases \ {channel} /\ UNCHANGED published
       \/ \E g \in Releases \ published : published' = published \cup {g} /\ UNCHANGED channel
    /\ UNCHANGED <<path, quiet>>

Tick ==
    /\ mode = "standalone"
    /\ Complete \/ path = Nothing \/ quiet < MaxPause
    /\ quiet' = IF Complete \/ path = Nothing THEN 0 ELSE quiet + 1
    /\ settling' = IF settling = Nothing \/ settling.age = SettleTime THEN settling
                   ELSE [settling EXCEPT !.age = @ + 1]
    /\ UNCHANGED <<mode, path, channel, published, changes, successor, observed>>

-----------------------------------------------------------------------------
(* observe                                                                 *)

Answers(observation) == observed' = observation

\* Mutant: the clock goes on when another file is seen.
SettlesOn(fingerprint) ==
    IF settling # Nothing /\ settling.age = SettleTime
    THEN /\ successor' = "path"
         /\ Answers("Ready")
         /\ UNCHANGED settling
    ELSE /\ settling' = [fingerprint |-> fingerprint,
                         age |-> IF settling = Nothing THEN 0 ELSE settling.age]
         /\ Answers("Settling")
         /\ UNCHANGED successor

\* Mutant: the clock starts again whenever the file is seen.
SettlesAnew(fingerprint) ==
    /\ settling' = [fingerprint |-> fingerprint, age |-> 0]
    /\ Answers("Settling")
    /\ UNCHANGED successor

IsCandidate(fingerprint) == settling # Nothing /\ settling.fingerprint = fingerprint

\* A file that is not the one that was started: a candidate that has been the
\* same for the settling time is armed, another one takes the place of the
\* candidate.  What is armed stays so meanwhile.
Settles(fingerprint) ==
    \/ /\ IsCandidate(fingerprint) /\ settling.age = SettleTime
       /\ successor' = "path"
       /\ Answers("Ready")
       /\ UNCHANGED settling
    \/ /\ IsCandidate(fingerprint) /\ settling.age < SettleTime
       /\ Answers("Settling")
       /\ UNCHANGED <<settling, successor>>
    \/ /\ ~ IsCandidate(fingerprint)
       /\ settling' = [fingerprint |-> fingerprint, age |-> 0]
       /\ Answers("Settling")
       /\ UNCHANGED successor

ObserveExecutable ==
    /\ mode = "standalone"
    /\ \/ /\ path = Nothing
          /\ settling' = Nothing
          /\ Answers("Settling")
          /\ UNCHANGED successor
       \/ /\ path = Own
          /\ settling' = Nothing /\ successor' = Nothing
          /\ Answers("Incumbent")
       \/ /\ path \notin {Nothing, Own}
          /\ Settles(path)
    /\ UNCHANGED outsideVars

\* A release that does not verify is an error, and leaves what is armed.
ObserveChannel ==
    /\ mode = "managed"
    /\ \/ /\ channel = Incumbent
          /\ successor' = Nothing
          /\ Answers("Incumbent")
       \/ /\ channel # Incumbent
          /\ successor = channel \/ channel \in published
          /\ successor' = channel
          /\ Answers("Ready")
    /\ UNCHANGED <<outsideVars, settling>>

\* arm_current_relaunch
ArmCurrentRelaunch ==
    /\ successor' = IF mode = "managed" THEN Incumbent ELSE "path"
    /\ UNCHANGED <<outsideVars, settling, observed>>

Outside == PathChanges \/ FileGrows \/ ChannelChanges \/ Tick
Observe == ObserveExecutable \/ ObserveChannel

WatchNext == Outside \/ Observe \/ ArmCurrentRelaunch

WatchFairness == WF_watchVars(Observe) /\ WF_watchVars(Tick)

WatchSpec == WatchInit /\ [][WatchNext]_watchVars /\ WatchFairness

-----------------------------------------------------------------------------
(* Properties                                                              *)

\* A successor is reported ready only when it is whole: no file that someone is
\* still writing, and of the channel no release that has not been verified; and
\* the target that is armed is then the one that was observed.
ArmedIsComplete ==
    [][Observe /\ observed' = "Ready" =>
        IF mode = "managed" THEN successor' = channel /\ channel \in published
        ELSE successor' = "path" /\ Complete /\ path # Own]_watchVars

\* What has come to stay is noticed: a replacement becomes ready, and so does
\* the return of the executable or release that runs.
ReplacementNoticed ==
    /\ <>[](mode = "standalone" /\ Complete /\ path # Own) => <>[](observed = "Ready")
    /\ <>[](mode = "managed" /\ channel \in published \ {Incumbent}) => <>[](observed = "Ready")
    /\ <>[](IF mode = "managed" THEN channel = Incumbent ELSE path = Own)
            => <>[](observed = "Incumbent")
=============================================================================
