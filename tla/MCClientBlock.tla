--------------------------- MODULE MCClientBlock ---------------------------
(* The instances of ClientBlock that TLC checks. *)
EXTENDS ClientBlock

CONSTANTS r1, job

OneRequest == {r1}
AllModes == {"full", "whatsapp_only"}
FullOnly == {"full"}
AllReaches == {"ssh", "no_ip", "no_credentials"}
SshOnly == {"ssh"}
AllOutcomes == {"ok", "transient", "structural"}
NoRefusal == {"ok", "transient"}
NoFault == {}
Overlap == {"overlap"}
=============================================================================
