------------------------------- MODULE MCPreroll -------------------------------
(* An instance of Preroll for TLC: a media with a video and an audio stream, *)
(* and requests for one or both.                                             *)
EXTENDS Preroll, TLC

CONSTANTS video, audio

MCClock == video :> 2 @@ audio :> 1

Range(min, max) == [min |-> min, max |-> max]
Desc == [op |-> "describe"]
Stopping == [op |-> "pause"]
PlayAt(r, scale) == [op |-> "play", range |-> r, scale |-> scale, speed |-> 1, frames |-> FALSE]

Conf(mode, keyunit, live, setup, requests) ==
    [live |-> live, seekable |-> ~live, keyunit |-> keyunit, expires_at_once |-> FALSE, suspend_mode |-> mode,
     setup |-> setup, end |-> (video :> 3 @@ audio :> 3), gaps |-> [s \in Streams |-> {}],
     ops |-> <<Desc>> \o requests]

Plain == PlayAt(None, 1)

Both == {video, audio}
Stored(mode, requests) == Conf(mode, FALSE, FALSE, Both, requests)
Live(mode, setup, requests) == Conf(mode, TRUE, TRUE, setup, requests)

MCPlans ==
    \* a seek, twice the speed, backwards, a scale of 0
    {Stored(mode, <<p>>) : mode \in {"none", "reset"},
       p \in {PlayAt(Range(1, 3), 1), PlayAt(Range(1, None), 2), PlayAt(Range(2, 0), -1), PlayAt(None, 0)}}
    \* a stop where the media is, and once more after a pause
    \cup {Stored(mode, <<PlayAt(Range(1, 2), 1), Stopping, PlayAt(Range(None, 2), 1)>>) : mode \in {"none", "pause", "reset"}}
    \cup {Conf(mode, FALSE, FALSE, {video}, <<PlayAt(Range(None, 2), 1), Stopping, PlayAt(Range(0, 1), 1)>>) :
            mode \in {"none", "pause", "reset"}}
    \* a seek while it plays or pauses
    \cup {Stored("pause", <<Plain, Stopping, PlayAt(Range(1, None), 1)>>),
          Conf("none", FALSE, FALSE, {video}, <<Plain, PlayAt(Range(1, None), 1), Stopping, Plain>>),
          [Stored("none", <<Plain, PlayAt(Range(1, None), 1)>>) EXCEPT !.end = [s \in Streams |-> 2]]}
    \* a live source, with units that wait too long
    \cup {Live("none", setup, <<Plain, Stopping, Plain>>) : setup \in {{video}, Both}}
    \cup {[Live("pause", Both, <<Plain, Stopping, Plain>>) EXCEPT !.end = [s \in Streams |-> n]] : n \in {4, 5}}
    \cup {[Live("none", Both, <<Plain>>) EXCEPT !.expires_at_once = TRUE]}
    \* a stream with nothing to begin with, and one that is shorter
    \cup {[Stored("pause", <<PlayAt(r, 1)>>) EXCEPT !.gaps[audio] = {0, 1}] : r \in {None, Range(1, None)}}
    \cup {[Live("none", setup, <<Plain>>) EXCEPT !.gaps[audio] = {0}] : setup \in {{video}, Both}}
    \cup {[Stored("reset", <<PlayAt(Range(2, None), 1)>>) EXCEPT !.end[audio] = 2]}
===============================================================================
