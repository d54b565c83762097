------------------------ MODULE MC_NotificationCascade ------------------------
(* One Host, one PlatformNetwork and one HostProfile: two kinds of the     *)
(* cascade, so that a failure on the second leaves the first bumped, and  *)
(* an object the cascade never lists.                                      *)
EXTENDS NotificationCascade, TLC

CONSTANTS h1, p1, hp1

MCObjs == {h1, p1, hp1}
MCKindOf == (h1 :> "Host") @@ (p1 :> "PlatformNetwork") @@ (hp1 :> "HostProfile")
=============================================================================
