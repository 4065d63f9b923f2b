------------------------------ MODULE MCCaptcha ------------------------------
(* Captcha on a small instance for TLC. *)
EXTENDS Captcha

MCModes == {"button", "join_request"}
MCOnFails == {"kick", "keep_muted"}
MCKick == {"kick"}
MCSanctions == {"muted", "banned"}
MCNoSanctions == {}
MCButton == {"button"}

=============================================================================
