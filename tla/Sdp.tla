----------------------------------- MODULE Sdp -----------------------------------
(* Descriptions: what rtsp-sdp.c makes of the streams of a media, what          *)
(* default_handle_sdp (rtsp-media.c) makes of one that a client announces, and  *)
(* the transports that are chosen by them (rtsp-client.c, rtsp-stream.c,        *)
(* gstrtspclientsink.c).                                                        *)
(* A description is a sequence of lines, one for each profile of each stream:   *)
(*   [profile, control, where, keymgmt, clock, formats, ssrc, dir, of];         *)
(* formats are [pt, name, apt]; of names the stream, and is not sent.           *)
EXTENDS Building

CONSTANT ClockMod   \* the size of the 32 bits of an RTP time

ProfileOrder == <<"AVP", "SAVP", "AVPF", "SAVPF">>   \* in the order of their bits
AllProtocols == {"UDP", "MCAST", "TCP"}

gst_rtsp_stream_get_profiles(s) == IF s.set["profiles"] = Default THEN {"AVP"} ELSE s.set["profiles"]
gst_rtsp_stream_get_protocols(s) == IF s.set["protocols"] = Default THEN AllProtocols ELSE s.set["protocols"]
gst_rtsp_stream_get_retransmission_time(s) == s.set["rtx_time"]

-----------------------------------------------------------------------------
(* One line.                                                                 *)

Unicast == "any"
ConnectionOf(s) == IF gst_rtsp_stream_get_protocols(s) # {"MCAST"} THEN Unicast ELSE IF s.set["pool"] = None THEN None ELSE "group"

KeymgmtOf(s) == IF s.caps.key = None THEN None ELSE mikey_add_crypto_sessions(s, MikeyFromCaps(s.caps.key))

\* The RTP time at the epoch of the clock; a sum of unsigned numbers that is cut to 32 bits.
DirectOffset(rtptime, time) == (ClockMod - 1 + rtptime + ClockMod - (time % ClockMod)) % ClockMod

Timed(clock) == clock \in {"ntp", "ptp"}
ClockOf(clk, s) ==
    LET mode == s.set["publish_clock"]
        named == mode # "none" /\ Timed(clk.used)
    IN  IF ~is_sender(s) THEN None
        ELSE [refclk |-> IF named THEN clk.used ELSE "local",
              mediaclk |-> IF named /\ mode = "offset" THEN DirectOffset(clk.rtptime, clk.time) ELSE "sender"]

RtxFormat(s) ==
    IF gst_rtsp_stream_get_retransmission_time(s) = Default \/ s.rtx = 0 THEN {}
    ELSE {[pt |-> s.rtx, name |-> "RTX", apt |-> s.caps.pt]}

FecFormat(s) == IF s.fec = 0 \/ s.fec_pt = 0 THEN {} ELSE {[pt |-> s.fec_pt, name |-> "ULPFEC", apt |-> s.caps.pt]}

Feedback(profile) == profile \in {"AVPF", "SAVPF"}
FormatsOf(s, profile) ==
    {[pt |-> s.caps.pt, name |-> "MEDIA", apt |-> None]} \cup (IF Feedback(profile) THEN RtxFormat(s) \cup FecFormat(s) ELSE {})

\* update_sdp_from_tags: the bitrate of the first tags of the stream that name one.
get_info_from_tags(tags) ==
    LET Rate(t) == IF t.max # 0 THEN t.max ELSE t.rate
        found == SelectInSeq(tags, LAMBDA t : t.stream /\ Rate(t) # 0)
    IN  IF found = 0 THEN None ELSE Rate(tags[found])

TagsOf(s) == IF s.pad \in DOMAIN conf.tags THEN conf.tags[s.pad] ELSE <<>>

make_media(clk, s, id, profile) ==
    IF ConnectionOf(s) = None \/ (s.caps.key # None /\ KeymgmtOf(s) = None) THEN None
    ELSE [profile |-> profile, control |-> gst_rtsp_stream_get_control(s), where |-> ConnectionOf(s), keymgmt |-> KeymgmtOf(s),
          clock |-> ClockOf(clk, s), formats |-> FormatsOf(s, profile), ssrc |-> IF s.session = None THEN None ELSE s.ssrc,
          dir |-> s.dir, rate |-> get_info_from_tags(TagsOf(s)), of |-> id]

\* Lines are added until one cannot be made: [ok, lines].
Lines(clk, s, id) ==
    LET profiles == SelectSeq(ProfileOrder, LAMBDA p : p \in gst_rtsp_stream_get_profiles(s))
        Add(acc, p) == LET line == make_media(clk, s, id, p)
                       IN  IF ~acc.ok \/ line = None THEN [acc EXCEPT !.ok = FALSE] ELSE [acc EXCEPT !.lines = Append(@, line)]
    IN  FoldLeft(Add, [ok |-> TRUE, lines |-> <<>>], profiles)

gst_rtsp_sdp_from_stream(clk, s, id) == IF s.caps = None THEN [ok |-> FALSE, lines |-> <<>>] ELSE Lines(clk, s, id)

\* rtsp-onvif-media.c: a stream that receives is described by every format that
\* its decoder accepts, and expects them from then on: [ok, lines, stream].
OnvifCaps(s) == IF ~is_sender(s) THEN conf.backcaps ELSE IF s.caps = None THEN <<>> ELSE <<s.caps>>
gst_rtsp_onvif_media_setup_sdp(clk, s, id) ==
    LET Add(acc, c) ==
            LET made == Lines(clk, [s EXCEPT !.caps = c], id)
                format == [name |-> "MEDIA", apt |-> None]
            IN  IF ~acc.ok THEN acc
                ELSE [ok |-> made.ok, lines |-> acc.lines \o made.lines,
                      stream |-> IF is_sender(s) THEN s ELSE gst_rtsp_stream_set_pt_map(acc.stream, c.pt, format)]
    IN  IF OnvifCaps(s) = <<>> THEN [ok |-> FALSE, lines |-> <<>>, stream |-> s]
        ELSE FoldLeft(Add, [ok |-> TRUE, lines |-> <<>>, stream |-> s], OnvifCaps(s))

-----------------------------------------------------------------------------
(* A description that a client announces.                                    *)

\* As many lines as streams, and each of a profile that its stream has; what
\* was done for the lines before stays when one is refused.
SetFormats(s, formats) ==
    FoldLeft(LAMBDA acc, f : gst_rtsp_stream_set_pt_map(acc, f.pt, [name |-> f.name, apt |-> f.apt]), s, SetToSeq(formats))
HandleLine(s, line) ==
    LET mapped == SetFormats(s, line.formats)
    IN  IF line.control = None THEN mapped ELSE gst_rtsp_stream_set_control(mapped, line.control)

default_handle_sdp(m, lines) ==
    LET Handle(acc, i) ==
            LET s == m.streams[i]
            IN  IF ~acc.ok \/ lines[i].profile \notin gst_rtsp_stream_get_profiles(m.info[s]) THEN [acc EXCEPT !.ok = FALSE]
                ELSE [acc EXCEPT !.media.info[s] = HandleLine(@, lines[i])]
    IN  IF Len(lines) # gst_rtsp_media_n_streams(m) THEN [ok |-> FALSE, media |-> m]
        ELSE FoldLeft(Handle, [ok |-> TRUE, media |-> m], [i \in 1..Len(lines) |-> i])

\* The answer names the streams by their places.
AnnounceKeymgmt(m) ==
    [i \in 1..Len(m.streams) |-> stream_make_keymgmt(m.info[m.streams[i]], Numbered(i - 1))]

-----------------------------------------------------------------------------
(* Transports: [parses, trans, profile, lower].                               *)

\* Mutant: the lower transport is not looked at.
IsProfileSupported(s, t) == t.trans = "RTP" /\ t.profile \in gst_rtsp_stream_get_profiles(s)

gst_rtsp_stream_is_transport_supported(s, t) ==
    /\ t.trans = "RTP"
    /\ t.profile \in gst_rtsp_stream_get_profiles(s)
    /\ t.lower \in gst_rtsp_stream_get_protocols(s)

gst_rtsp_transport_init == [parses |-> TRUE, trans |-> "RTP", profile |-> "AVP", lower |-> "MCAST"]

\* The first that is supported.  When there is none, it is the last one that
\* counts: the error that its parser returns is taken for TRUE.
parse_transport(specs, s) ==
    LET good == SelectInSeq(specs, LAMBDA t : t.parses /\ gst_rtsp_stream_is_transport_supported(s, t))
    IN  IF good # 0 THEN [ok |-> TRUE, tr |-> specs[good]]
        ELSE [ok |-> specs # <<>> /\ ~Last(specs).parses, tr |-> gst_rtsp_transport_init]

\* The Blocksize of a request is only for a stream that sends, and that nobody else receives.
default_configure_client_media(s, shared, blocksize) ==
    CASE ~is_sender(s) \/ blocksize = None -> [ok |-> TRUE, stream |-> s]
      [] is_sender(s) /\ blocksize = Illegal -> [ok |-> FALSE, stream |-> s]
      [] OTHER -> [ok |-> TRUE, stream |-> IF shared THEN s ELSE [s EXCEPT !.mtu = blocksize]]

make_server_transport(s, ct, plays) ==
    [trans |-> ct.trans, profile |-> ct.profile, lower |-> ct.lower, ssrc |-> IF plays THEN s.ssrc ELSE None]

-----------------------------------------------------------------------------
(* gstrtspclientsink: sink is [next, set, blocksize]; a context is made for   *)
(* each pad, and a stream for it: [sink, stream].                             *)

\* A payloader whose type another stream of the sink may have gets the next
\* one, and two more are taken for retransmissions and FEC.
GivenBySink == {"rtx_time", "protocols", "profiles", "buffer_size", "iface", "publish_clock", "pool"}
gst_rtsp_client_sink_create_stream(sink, idx, c) ==
    LET again == c.pt >= FirstPt /\ c.pt <= sink.next
        pt == IF again THEN sink.next ELSE c.pt
        aux == IF again THEN sink.next + 1 ELSE sink.next
        new == gst_rtsp_stream_new(idx, make_payloader(c.caps), "src", c.pad, pt)
        given == [new EXCEPT !.set = [x \in StreamSettings |-> IF x \in GivenBySink THEN sink.set[x] ELSE @[x]],
                             !.mtu = IF sink.blocksize = 0 THEN @ ELSE sink.blocksize]
        protected == gst_rtsp_stream_set_ulpfec_percentage(gst_rtsp_stream_set_ulpfec_pt(given, aux + 1), c.fec)
    IN  [sink |-> [sink EXCEPT !.next = IF aux < LastPt THEN aux + 2 ELSE LastPt + 1],
         stream |-> IF aux + 1 > LastPt THEN None ELSE gst_rtsp_stream_set_retransmission_pt(protected, aux)]

\* The lower transport is the first of three that the sink may use.
SinkLower(protocols) ==
    CASE "UDP" \in protocols -> "UDP" [] "UDP" \notin protocols /\ "MCAST" \in protocols -> "MCAST" [] OTHER -> "TCP"
gst_rtsp_client_sink_create_transports_string(profiles, protocols) ==
    LET order == SelectSeq(Reverse(ProfileOrder), LAMBDA p : p \in profiles)
    IN  [i \in 1..Len(order) |-> [parses |-> TRUE, trans |-> "RTP", profile |-> order[i], lower |-> SinkLower(protocols)]]
=================================================================================
