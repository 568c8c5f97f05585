---------------------------- MODULE MCSoundBuffer ----------------------------
(* A source of three frames, periods of two, a ring of two spans and a     *)
(* history of two epochs; the addresses of snapshots are interchangeable.  *)
EXTENDS SoundBuffer, TLC

SnapshotSymmetry == Permutations(Snapshots)

LowestTerms == {rate \in [source : 1..5, output : 1..5] :
                  \A d \in 2..5 : rate.source % d # 0 \/ rate.output % d # 0}

(* A buffer may have any rate. The cursor interpolates inside a published  *)
(* segment; each of its frames must be the one that the mapping of the     *)
(* whole epoch gives, whatever has been put out of the epoch and however   *)
(* much is to come (SegmentLength: the cutting in PublishMappedSpans).     *)
ExactFrom == [begin \in 0..MaxOutput |->
    \A rate \in LowestTerms, remaining \in 1..15 :
        SegmentMatchesCumulativeMapping(
            begin, SegmentLength(begin, remaining, rate), rate)]

SegmentsExact == ExactFrom[mapping.output_frames]
=============================================================================
