---------------------------------- MODULE Keys ----------------------------------
(* SRTP: the keys of a stream (rtsp-stream.c), the MIKEY messages that carry  *)
(* them to a client (rtsp-sdp.c, rtsp-client.c) and from one (rtsp-stream.c,  *)
(* gstrtspclientsink.c).  A message is                                        *)
(*   [map, cs: <<[ssrc, roc, policy]>>, key: None or [enc, mac, data],        *)
(*    policies: <<[policy, params: <<[type, val]>>]>>];                       *)
(* MIKEY itself is in another library.                                        *)
EXTENDS Naturals, Sequences, SequencesExt, NoValue

-----------------------------------------------------------------------------
(* Ciphers: <<mode, bits>>.                                                  *)

Icm == {"AES_CM_128", "AES_KW_128"}
Gcm == {"AES_GCM_128"}

CipherOf(alg, cipher) ==
    CASE alg = "NULL" -> <<"null", 0>>
      [] alg \in Icm -> <<"icm", 128>>
      [] alg \in Gcm -> <<"gcm", 128>>
      [] OTHER -> cipher

CipherOfLength(alg, bits, cipher) ==
    CASE bits \notin {128, 256} -> cipher
      [] alg \in Icm -> <<"icm", bits>>
      [] alg \in Gcm -> <<"gcm", bits>>
      [] OTHER -> cipher

AuthOf(alg, auth) == CASE alg = "NULL" -> "null" [] alg = "HMAC_SHA_1" -> "sha1-80" [] OTHER -> auth
AuthOfLength(bits, auth) == CASE bits = 32 -> "sha1-32" [] bits = 80 -> "sha1-80" [] OTHER -> auth

\* Parameters count in the order in which they come: a length before its
\* algorithm is about the default one, and is forgotten with it.
ApplyParam(acc, p) ==
    CASE p.type = "enc_alg" -> [acc EXCEPT !.alg = p.val, !.cipher = CipherOf(p.val, @)]
      [] p.type = "enc_key_len" -> [acc EXCEPT !.cipher = CipherOfLength(acc.alg, p.val, @)]
      [] p.type = "auth_alg" -> [acc EXCEPT !.auth = AuthOf(p.val, @)]
      [] p.type = "auth_key_len" -> [acc EXCEPT !.auth = AuthOfLength(p.val, @)]
      [] OTHER -> acc

Defaults == [alg |-> "AES_CM_128", cipher |-> <<"icm", 128>>, auth |-> "sha1-80"]
mikey_apply_policy(msg, policy) ==
    LET found == SelectInSeq(msg.policies, LAMBDA sp : sp.policy = policy)
    IN  IF found = 0 THEN Defaults ELSE FoldLeft(ApplyParam, Defaults, msg.policies[found].params)

-----------------------------------------------------------------------------
(* Keys that a stream receives with: s.keys, from the SSRC to the parameters. *)

gst_rtsp_stream_update_crypto(s, ssrc, crypto) ==
    LET others == DOMAIN s.keys \ {ssrc}
    IN  [s EXCEPT !.keys = [x \in others \cup (IF crypto = None THEN {} ELSE {ssrc}) |-> IF x = ssrc THEN crypto ELSE @[x]]]

request_key(s, ssrc) == IF ssrc \in DOMAIN s.keys THEN s.keys[ssrc] ELSE None

Usable(msg) ==
    /\ msg # None /\ msg.map = "SRTP" /\ msg.cs # <<>>
    /\ msg.key # None
    /\ msg.key.enc = "NULL" /\ msg.key.mac = "NULL"

handle_mikey_data(s, msg) ==
    LET Add(acc, cs) ==
            LET policy == mikey_apply_policy(msg, cs.policy)
            IN  gst_rtsp_stream_update_crypto(acc, cs.ssrc, [key |-> msg.key.data, roc |-> cs.roc, cipher |-> policy.cipher, auth |-> policy.auth])
    IN  IF Usable(msg) THEN FoldLeft(Add, s, msg.cs) ELSE s

\* A header has specs, and a spec fields; what is left of a spec is ignored
\* when it is found to be for another protocol.
gst_rtsp_stream_handle_keymgmt(s, specs) ==
    LET Field(acc, f) ==
            CASE acc.other -> acc
              [] f.field = "prot" -> [acc EXCEPT !.other = f.val # "mikey"]
              [] f.field = "data" -> [acc EXCEPT !.stream = handle_mikey_data(@, f.val)]
              [] OTHER -> acc
        Spec_(stream, spec) == FoldLeft(Field, [other |-> FALSE, stream |-> stream], spec).stream
    IN  FoldLeft(Spec_, s, specs)

request_rtp_rtcp_decoder(s, session) == IF s.idx = session THEN [s EXCEPT !.srtpdec = TRUE] ELSE s

-----------------------------------------------------------------------------
(* Keys that a stream sends with: one encoder for RTP and RTCP, whose key is  *)
(* made with it.  s.srtpenc is None or [key, pads].                           *)

get_rtp_encoder(s, key) == IF s.srtpenc # None THEN s.srtpenc ELSE [key |-> key, pads |-> {}]

request_rtp_encoder(s, session, key) ==
    IF s.idx # session THEN s ELSE [s EXCEPT !.srtpenc = [get_rtp_encoder(s, key) EXCEPT !.pads = @ \cup {"rtp"}]]
request_rtcp_encoder(s, session, key) ==
    IF s.idx # session THEN s ELSE [s EXCEPT !.srtpenc = [get_rtp_encoder(s, key) EXCEPT !.pads = @ \cup {"rtcp"}]]

\* gst_mikey_message_new_from_caps: a key and its policy.
PolicyOf(key) ==
    <<[type |-> "enc_alg", val |-> CASE key.cipher[1] = "icm" -> "AES_CM_128" [] key.cipher[1] = "gcm" -> "AES_GCM_128" [] OTHER -> "NULL"],
      [type |-> "enc_key_len", val |-> key.cipher[2]],
      [type |-> "auth_alg", val |-> IF key.auth = "null" THEN "NULL" ELSE "HMAC_SHA_1"],
      [type |-> "auth_key_len", val |-> CASE key.auth = "sha1-80" -> 80 [] key.auth = "sha1-32" -> 32 [] OTHER -> 0]>>
MikeyFromCaps(key) ==
    [map |-> "SRTP", cs |-> <<>>, key |-> [enc |-> "NULL", mac |-> "NULL", data |-> key.data],
     policies |-> <<[policy |-> 0, params |-> PolicyOf(key)]>>]
AddSession(msg, ssrc, roc) == [msg EXCEPT !.cs = Append(@, [ssrc |-> ssrc, roc |-> roc, policy |-> 0])]

\* The rollover counter that the encoder has for an SSRC, 0 while it has no statistics at all.
Missing == 1000
get_roc_from_stats(stats, ssrc) == IF stats = None THEN 0 ELSE IF ssrc \in DOMAIN stats THEN stats[ssrc] ELSE Missing

\* For the description: every SSRC that has sent, in the order of sources, and
\* nothing at all when none has or when one is unknown to the encoder.
mikey_add_crypto_sessions(s, msg) ==
    LET sent == SelectSeq(s.sources, LAMBDA src : src.sender)
        Roc(src) == get_roc_from_stats(s.stats, src.ssrc)
    IN  IF s.srtpenc = None \/ ~s.joined \/ sent = <<>> \/ \E i \in 1..Len(sent) : Roc(sent[i]) = Missing THEN None
        ELSE FoldLeft(LAMBDA acc, src : AddSession(acc, src.ssrc, Roc(src)), msg, sent)

\* For the answer to ANNOUNCE: the encoder of RTCP, whose SSRC is that of the session.
stream_make_keymgmt(s, location) ==
    IF s.srtpenc = None THEN None
    ELSE [uri |-> location, msg |-> AddSession(MikeyFromCaps(s.srtpenc.key), s.ssrc, 0)]

\* gstrtspclientsink: the key that the application gives for RTCP, or that of
\* the caps, for the SSRC of the stream and for that of its retransmissions.
signal_get_srtcp_params(context) == context.app_key
gst_rtsp_client_sink_stream_make_keymgmt(context, location) ==
    LET given == signal_get_srtcp_params(context)
        key == IF given # None THEN given ELSE context.stream.caps.key
        own == AddSession(MikeyFromCaps(key), context.stream.ssrc, 0)
    IN  IF key = None THEN None
        ELSE [uri |-> location, msg |-> IF context.rtx_ssrc = None THEN own ELSE AddSession(own, context.rtx_ssrc, 0)]
=================================================================================
