-------------------------- MODULE MCListenRoomSender --------------------------
(***************************************************************************)
(* ListenRoomSender with a room that is off, one of PCM through the relay, *)
(* one of Opus with the direct path beside it, and one of WebRTC alone.    *)
(* A block is two packets, an Opus frame a block and a half.               *)
(***************************************************************************)
EXTENDS ListenRoomSender

Room(enabled, opus, transport) ==
    [enabled |-> enabled, opus |-> opus, transport |-> transport]

MCSettings ==
    {Room(FALSE, FALSE, "relay"), Room(TRUE, FALSE, "relay"),
     Room(TRUE, TRUE, "direct_fallback"), Room(TRUE, FALSE, "native_webrtc")}
=============================================================================
