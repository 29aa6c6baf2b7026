-------------------------------- MODULE Settings --------------------------------
(* What an application may set of a factory (rtsp-media-factory.c), of a media *)
(* (rtsp-media.c) and of a stream (rtsp-stream.c), and how far each setter     *)
(* reaches: into the streams, and into elements that exist already.            *)
(* A factory, the settings of a media and those of a stream are functions of   *)
(* names; Default stands for the default that the class declares.              *)
EXTENDS Naturals, Sequences, SequencesExt, NoValue

CONSTANTS
    Default,    \* the declared default of a setting
    Zero,       \* what g_object_new leaves in a field that nobody initializes
    Illegal     \* a value that is out of the range of its setting

-----------------------------------------------------------------------------
(* Factories.                                                                *)

FactoryProps ==
    {"launch", "shared", "suspend_mode", "eos_shutdown", "profiles", "protocols", "buffer_size",
     "keyunit", "keyunit_timeout", "latency", "transport_mode", "stop_on_disconnect", "clock",
     "max_mcast_ttl", "bind_mcast", "enable_rtcp", "dscp_qos"}
FactorySettings == FactoryProps \cup {"rtx_time", "do_rtx", "publish_clock", "pool", "iface", "permissions"}

\* The objects are NULL.
NewFactory == [x \in FactorySettings |-> IF x \in {"clock", "pool", "iface", "permissions"} THEN None ELSE Default]

factory_set(f, x, v) == [f EXCEPT ![x] = v]
gst_rtsp_media_factory_set_max_mcast_ttl(f, v) == IF v = Illegal THEN f ELSE factory_set(f, "max_mcast_ttl", v)
gst_rtsp_media_factory_set_dscp_qos(f, v) == IF v = Illegal THEN f ELSE factory_set(f, "dscp_qos", v)
gst_rtsp_media_factory_set_property(f, x, v) ==
    CASE x = "max_mcast_ttl" -> gst_rtsp_media_factory_set_max_mcast_ttl(f, v)
      [] x = "dscp_qos" -> gst_rtsp_media_factory_set_dscp_qos(f, v)
      [] OTHER -> factory_set(f, x, v)

-----------------------------------------------------------------------------
(* Streams: settings, and the elements that a setter changes as well.        *)

StreamSettings ==
    {"dscp_qos", "profiles", "protocols", "publish_clock", "max_mcast_ttl", "bind_mcast", "rate_control",
     "enable_rtcp", "pool", "iface", "rtx_time", "buffer_size", "keyunit"}
NewStreamSettings == [x \in StreamSettings |-> IF x \in {"pool", "iface"} THEN None ELSE Default]

stream_set(s, x, v) == [s EXCEPT !.set[x] = v]
gst_rtsp_stream_set_max_mcast_ttl(s, v) == IF v = Illegal THEN s ELSE stream_set(s, "max_mcast_ttl", v)

\* The sinks for RTP get it: the first of the array.
update_dscp_qos(s, v) == [s EXCEPT !.udpsink = IF @ = None THEN None ELSE v]
gst_rtsp_stream_set_dscp_qos(s, v) == IF v = Illegal THEN s ELSE update_dscp_qos(stream_set(s, "dscp_qos", v), v)

gst_rtsp_stream_set_retransmission_time(s, v) ==
    [stream_set(s, "rtx_time", v) EXCEPT !.rtxsend = IF @ = None THEN None ELSE [@ EXCEPT !.time = v]]

\* The appsink waits for the clock, the payloader and the session go by the time of the media.
gst_rtsp_stream_set_rate_control(s, v) ==
    [stream_set(s, "rate_control", v) EXCEPT !.sync = IF @ = None THEN None ELSE v,
                                             !.session = IF @ = None THEN None ELSE v]

StreamSet(s, x, v) ==
    CASE x = "max_mcast_ttl" -> gst_rtsp_stream_set_max_mcast_ttl(s, v)
      [] x = "dscp_qos" -> gst_rtsp_stream_set_dscp_qos(s, v)
      [] x = "rtx_time" -> gst_rtsp_stream_set_retransmission_time(s, v)
      [] x = "rate_control" -> gst_rtsp_stream_set_rate_control(s, v)
      [] OTHER -> stream_set(s, x, v)

-----------------------------------------------------------------------------
(* Media: m.set, and m.info of the streams that m.streams lists.             *)

MediaProps ==
    {"shared", "suspend_mode", "reusable", "profiles", "protocols", "eos_shutdown", "buffer_size", "keyunit",
     "keyunit_timeout", "time_provider", "latency", "transport_mode", "stop_on_disconnect", "clock",
     "max_mcast_ttl", "bind_mcast", "dscp_qos"}
MediaSettings ==
    MediaProps \cup {"rtx_time", "do_rtx", "publish_clock", "pool", "iface", "permissions", "enable_rtcp", "rate_control"}

\* Nothing gives the latency its default.
NewMediaSettings ==
    [x \in MediaSettings |-> CASE x = "latency" -> Zero
                               [] x \in {"clock", "pool", "iface", "permissions"} -> None
                               [] OTHER -> Default]

Kept(m, x, v) == [m EXCEPT !.set[x] = v]

\* Mutant: only the media itself is told.
ToNoStream(m, x, v) == [m EXCEPT !.set[x] = v]

ToStreams(m, x, v) ==
    [m EXCEPT !.set[x] = v,
              !.info = [s \in DOMAIN @ |-> IF \E i \in DOMAIN m.streams : m.streams[i] = s THEN StreamSet(@[s], x, v) ELSE @[s]]]

gst_rtsp_media_set_suspend_mode(m, v) == IF m.status = "PREPARED" THEN m ELSE Kept(m, "suspend_mode", v)
gst_rtsp_media_set_profiles(m, v) == ToStreams(m, "profiles", v)
gst_rtsp_media_set_protocols(m, v) == ToStreams(m, "protocols", v)
gst_rtsp_media_set_buffer_size(m, v) == ToStreams(m, "buffer_size", v)
gst_rtsp_media_set_dscp_qos(m, v) == IF v = Illegal THEN m ELSE ToStreams(m, "dscp_qos", v)
gst_rtsp_media_set_retransmission_time(m, v) == ToStreams(m, "rtx_time", v)
gst_rtsp_media_set_publish_clock_mode(m, v) == ToStreams(m, "publish_clock", v)
gst_rtsp_media_set_address_pool(m, v) == ToStreams(m, "pool", v)
gst_rtsp_media_set_multicast_iface(m, v) == ToStreams(m, "iface", v)
gst_rtsp_media_set_max_mcast_ttl(m, v) == IF v = Illegal THEN m ELSE ToStreams(m, "max_mcast_ttl", v)
gst_rtsp_media_set_bind_mcast_address(m, v) == ToStreams(m, "bind_mcast", v)
gst_rtsp_media_set_rate_control(m, v) == ToStreams(m, "rate_control", v)

gst_rtsp_media_set_do_retransmission(m, v) ==
    [Kept(m, "do_rtx", v) EXCEPT !.rtpbin = IF @ = None THEN None ELSE [@ EXCEPT !.do_rtx = v]]

\* The storage of the session that has the number of the place of the stream;
\* none is needed for what arrives over TCP.
gst_rtsp_stream_is_tcp_receiver(s) == s.dir = "sink" /\ s.appsrc
SizeTime(m, i) == IF gst_rtsp_stream_is_tcp_receiver(m.info[m.streams[i]]) THEN Zero ELSE m.set["latency"]
update_stream_storage_size(m, i) ==
    [m EXCEPT !.rtpbin.storage = [k \in DOMAIN @ |-> IF k = i - 1 THEN SizeTime(m, i) ELSE @[k]]]
gst_rtsp_media_set_latency(m, v) ==
    LET kept == Kept(m, "latency", v)
    IN  IF m.rtpbin = None THEN kept
        ELSE FoldLeft(update_stream_storage_size, [kept EXCEPT !.rtpbin.latency = v], [i \in 1..Len(m.streams) |-> i])

gst_rtsp_media_set_clock(m, v) ==
    [Kept(m, "clock", v) EXCEPT !.used_clock = IF m.pipeline THEN v ELSE @]

MediaSet(m, x, v) ==
    CASE x = "suspend_mode" -> gst_rtsp_media_set_suspend_mode(m, v)
      [] x = "profiles" -> gst_rtsp_media_set_profiles(m, v)
      [] x = "protocols" -> gst_rtsp_media_set_protocols(m, v)
      [] x = "buffer_size" -> gst_rtsp_media_set_buffer_size(m, v)
      [] x = "dscp_qos" -> gst_rtsp_media_set_dscp_qos(m, v)
      [] x = "rtx_time" -> gst_rtsp_media_set_retransmission_time(m, v)
      [] x = "publish_clock" -> gst_rtsp_media_set_publish_clock_mode(m, v)
      [] x = "pool" -> gst_rtsp_media_set_address_pool(m, v)
      [] x = "iface" -> gst_rtsp_media_set_multicast_iface(m, v)
      [] x = "max_mcast_ttl" -> gst_rtsp_media_set_max_mcast_ttl(m, v)
      [] x = "bind_mcast" -> gst_rtsp_media_set_bind_mcast_address(m, v)
      [] x = "rate_control" -> gst_rtsp_media_set_rate_control(m, v)
      [] x = "do_rtx" -> gst_rtsp_media_set_do_retransmission(m, v)
      [] x = "latency" -> gst_rtsp_media_set_latency(m, v)
      [] x = "clock" -> gst_rtsp_media_set_clock(m, v)
      [] OTHER -> Kept(m, x, v)

\* What a new stream is given of its media: not the DSCP.
GivenToStream == StreamSettings \ {"dscp_qos"}
Configured(m, s) == [s EXCEPT !.set = [x \in StreamSettings |-> IF x \in GivenToStream THEN m.set[x] ELSE @[x]]]

-----------------------------------------------------------------------------
(* What default_configure takes of the factory: read under its lock and then  *)
(* set one after the other, the rest read when its turn comes.                *)

ReadTogether ==
    {"suspend_mode", "shared", "eos_shutdown", "buffer_size", "keyunit", "keyunit_timeout", "dscp_qos", "profiles",
     "protocols", "rtx_time", "latency", "transport_mode", "stop_on_disconnect", "publish_clock", "max_mcast_ttl",
     "bind_mcast", "clock"}
ReadLater == {"do_rtx", "pool", "iface", "permissions"}
Objects == {"clock", "pool", "iface", "permissions"}
================================================================================
