-------------------------------- MODULE Formats --------------------------------
(* Payload types and control names of one GstRTSPStream (rtsp-stream.c): what *)
(* its payloader sends, what its retransmission and FEC elements are told,    *)
(* and what rtpbin is told of the payload types that it receives.             *)
(* s.ptmap gives for a payload type [name, apt]: the encoding name, and the   *)
(* payload type that a retransmission is for.                                 *)
EXTENDS Naturals, Sequences, NoValue

CONSTANT UnknownPt   \* the payload type of a payloader that has not been told any

gst_rtsp_stream_get_pt(s) == s.pt

\* A stream without a name of its own goes by its index.
Numbered(n) == <<"stream", n>>
gst_rtsp_stream_get_control(s) == IF s.control # None THEN s.control ELSE Numbered(s.idx)
gst_rtsp_stream_set_control(s, c) == [s EXCEPT !.control = c]
gst_rtsp_stream_has_control(s, c) == IF s.control # None THEN s.control = c ELSE c = Numbered(s.idx)

-----------------------------------------------------------------------------
(* Sending.                                                                  *)

gst_rtsp_stream_set_retransmission_pt(s, rtx) ==
    [s EXCEPT !.rtx = rtx, !.rtxsend = IF @ = None THEN None ELSE [@ EXCEPT !.map = {<<gst_rtsp_stream_get_pt(s), rtx>>}]]

gst_rtsp_stream_request_aux_sender(s) ==
    [s EXCEPT !.rtxsend = [map |-> {<<gst_rtsp_stream_get_pt(s), s.rtx>>}, time |-> s.set["rtx_time"]]]

gst_rtsp_stream_set_ulpfec_pt(s, pt) ==
    [s EXCEPT !.fec_pt = pt, !.fecenc = IF @ = None THEN None ELSE [@ EXCEPT !.pt = pt]]
gst_rtsp_stream_set_ulpfec_percentage(s, percentage) ==
    [s EXCEPT !.fec = percentage, !.fecenc = IF @ = None THEN None ELSE [@ EXCEPT !.percentage = percentage]]
gst_rtsp_stream_request_ulpfec_encoder(s) ==
    IF s.fec = 0 THEN s ELSE [s EXCEPT !.fecenc = [pt |-> s.fec_pt, percentage |-> s.fec]]

-----------------------------------------------------------------------------
(* Receiving.                                                                *)

add_rtx_pt(ptmap, p) == ptmap[p].name = "RTX" /\ ptmap[p].apt # None
update_rtx_receive_pt_map(s) ==
    [s EXCEPT !.rtxreceive = IF @ = None THEN None ELSE {<<s.ptmap[p].apt, p>> : p \in {q \in DOMAIN s.ptmap : add_rtx_pt(s.ptmap, q)}}]

retrieve_ulpfec_pt(ptmap) == {p \in DOMAIN ptmap : ptmap[p].name = "ULPFEC"}
update_ulpfec_decoder_pt(s) ==
    [s EXCEPT !.fecdec = IF @ = None \/ retrieve_ulpfec_pt(s.ptmap) = {} THEN @ ELSE CHOOSE p \in retrieve_ulpfec_pt(s.ptmap) : TRUE]

gst_rtsp_stream_request_aux_receiver(s) ==
    update_ulpfec_decoder_pt(update_rtx_receive_pt_map([s EXCEPT !.rtxreceive = {}]))
gst_rtsp_stream_request_ulpfec_decoder(s) == update_ulpfec_decoder_pt([s EXCEPT !.fecdec = UnknownPt])

gst_rtsp_stream_set_pt_map(s, pt, format) ==
    update_rtx_receive_pt_map([s EXCEPT !.ptmap = [p \in DOMAIN @ \cup {pt} |-> IF p = pt THEN format ELSE @[p]]])

request_pt_map(s, session, pt) == IF s.idx = session /\ pt \in DOMAIN s.ptmap THEN s.ptmap[pt] ELSE None

\* The first pad that rtpbin makes for the session of the stream is linked.
pad_added(s, session, pad) == IF s.idx # session \/ s.linked # None THEN s ELSE [s EXCEPT !.linked = pad]
===============================================================================
