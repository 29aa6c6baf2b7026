------------------------------- MODULE Selection -------------------------------
(* Which element payloads a stream: the choice of rtsp-media-factory-uri.c    *)
(* for the pads of uridecodebin, and that of gstrtspclientsink.c for the caps *)
(* of a sink pad.  Both are functions of the registry: features with their    *)
(* class, their rank and the caps that a sink pad of theirs accepts.          *)
EXTENDS Naturals, Sequences, FiniteSets, SequencesExt, NoValue

CONSTANTS
    Registry,   \* features: [id, klass, rank, accepts]
    Marginal    \* GST_RANK_MARGINAL; a rank of 0 is GST_RANK_NONE

\* The three lists of the factory: every feature is in one at most.
Is(f, words) == words \subseteq f.klass
InDecoders(f) == f.rank >= Marginal /\ Is(f, {"Decoder"})
InDemuxers(f) == f.rank >= Marginal /\ ~Is(f, {"Decoder"}) /\ (Is(f, {"Demux"}) \/ Is(f, {"Parser", "Codec"}))
InPayloaders(f) == f.rank >= Marginal /\ ~InDecoders(f) /\ ~InDemuxers(f) /\ Is(f, {"Payloader", "RTP"})

ByRank(S) == SetToSortSeq(S, LAMBDA f, g : f.rank > g.rank)
Accepting(list, caps) == ByRank({f \in list : caps.format \in f.accepts})

\* For AAC it is framed that says that the stream is parsed, unless parsed is there.
Parsed(caps) == IF caps.parsed # None THEN caps.parsed ELSE caps.format = "aac" /\ caps.framed

\* A parser has nothing to add to a parsed stream.
StillToPlug(caps, list) == \E i \in 1..Len(list) : ~Parsed(caps) \/ ~Is(list[i], {"Parser"})

\* What the walk over the parsers leaves in factory when it skips them all.
LeftOver(caps, list) == IF list # <<>> /\ Parsed(caps) THEN Last(list).id ELSE None

GstPay == "rtpgstpay"

\* The factory of the payloader, or None where uridecodebin is to go on.
find_payloader(use_gstpay, caps) ==
    LET demuxers == Accepting({f \in Registry : InDemuxers(f)}, caps)
        payloaders == Accepting({f \in Registry : InPayloaders(f)}, caps)
    IN  IF StillToPlug(caps, demuxers) THEN None
        ELSE IF payloaders # <<>> THEN Head(payloaders).id
        ELSE IF use_gstpay THEN GstPay
        ELSE IF Accepting({f \in Registry : InDecoders(f)}, caps) # <<>> THEN None
        ELSE LeftOver(caps, demuxers)

autoplug_continue(use_gstpay, caps) == find_payloader(use_gstpay, caps) = None

\* uridecodebin goes through the caps of a chain of elements, and exposes a
\* pad with the first that it is told to stop at, or with the last.
Exposed(use_gstpay, chain) ==
    LET ends == {i \in 1..Len(chain) : i = Len(chain) \/ ~autoplug_continue(use_gstpay, chain[i])}
    IN  chain[CHOOSE i \in ends : \A j \in ends : i <= j]

\* The payloader that pad_added_cb makes for an exposed pad, None where it gives up.
PayloaderOf(use_gstpay, chain) == find_payloader(use_gstpay, Exposed(use_gstpay, chain))

-----------------------------------------------------------------------------
(* gstrtspclientsink.c *)

SinkFactory(f) == f.rank # 0 /\ Is(f, {"Payloader", "Codec", "RTP"})

\* The HACK of compare_ranks.
SinkRank(f) == IF f.id = "rtpmp4apay" THEN 2 * Marginal + 1 ELSE f.rank
Preferred(f, g) == SinkRank(f) > SinkRank(g)

payloader_caps(f) == f.accepts
all_payloaders_caps == UNION {payloader_caps(f) : f \in {g \in Registry : SinkFactory(g)}}

make_payloader(caps) ==
    LET fit == {f \in Registry : SinkFactory(f) /\ caps.format \in f.accepts}
    IN  IF fit = {} THEN None ELSE (CHOOSE f \in fit : \A g \in fit \ {f} : Preferred(f, g)).id
===============================================================================
