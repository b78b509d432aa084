---------------------------- MODULE MCReceivers ----------------------------
(***************************************************************************)
(* The receivers of NMEA 0183 that collect what several sentences say,     *)
(* each on its own: they have no state in common.  "part" is the receiver  *)
(* of a behaviour.                                                         *)
(***************************************************************************)
EXTENDS AisTargets, NmeaMultipart, DscCalls, SafetyMessages, SkyView, TLC

CONSTANTS d1, d2   \* the senders of DSC calls

\* Data of the targets: reported always or if available, and merged or not.
MCFields == {"latitude_deg", "vessel_name", "ship_type", "navigation_status"}

Call(sender, priority, nature, ack, expansion) ==
    [sender |-> sender, priority |-> priority, nature |-> nature, ack |-> ack,
     expansion |-> expansion]

\* A distress call plain and with expansion, its acknowledgement, one of
\* another ship, and calls of lower priority.
MCDscSentences ==
    {Call(d1, "distress", 1, FALSE, FALSE), Call(d1, "distress", 1, FALSE, TRUE),
     Call(d1, "distress", 0, TRUE, FALSE), Call(d1, "distress", 1, TRUE, TRUE),
     Call(d2, "distress", 1, FALSE, FALSE), Call(d2, "safety", 2, FALSE, TRUE),
     Call(d2, "routine", 0, FALSE, TRUE)}

Broadcast(name, id, sequence, total) ==
    [name |-> name, id |-> id, sequence |-> sequence, total |-> total]

\* Two ids are the same, one message has no id, two no sequence number.
MCBroadcasts == {Broadcast("x", 1, 1, 2), Broadcast("y", 2, 2, 3), Broadcast("z", 1, 0, 1),
                 Broadcast("w", 0, 0, 1)}

VARIABLE part

vars == <<part, ais_vars, mp_vars, dsc_vars, msi_vars, sky_vars>>

Init ==
    /\ part \in {"ais", "multipart", "dsc", "msi", "sky"}
    /\ ais_family \in (IF part = "ais" THEN Families ELSE {"base"})
    /\ ais_field \in (IF part = "ais" THEN FieldsOf(ais_family) \intersect MCFields
                      ELSE {"latitude_deg"})
    /\ mp_family \in (IF part = "multipart" THEN {"slots", "single", "shared"} ELSE {"single"})
    /\ msi_kind \in (IF part = "msi" THEN {"safetynet", "navtex"} ELSE {"navtex"})
    /\ AisInit /\ MultipartInit /\ DscInit /\ MsiInit /\ SkyInit

Next ==
    /\ UNCHANGED part
    /\ \/ part = "ais" /\ AisNext /\ UNCHANGED <<mp_vars, dsc_vars, msi_vars, sky_vars>>
       \/ part = "multipart" /\ MultipartNext /\ UNCHANGED <<ais_vars, dsc_vars, msi_vars, sky_vars>>
       \/ part = "dsc" /\ DscNext /\ UNCHANGED <<ais_vars, mp_vars, msi_vars, sky_vars>>
       \/ part = "msi" /\ MsiNext /\ UNCHANGED <<ais_vars, mp_vars, dsc_vars, sky_vars>>
       \/ part = "sky" /\ SkyNext /\ UNCHANGED <<ais_vars, mp_vars, dsc_vars, msi_vars>>

Spec == Init /\ [][Next]_vars

\* The stations and the message keys are one set.
Symmetry == Permutations(Mmsis \union MessageKeys)

\* What a bounded table holds gives way only to what came in a full table
\* after it, and the own vessel's messages displace nothing.
KeptWhileRoom == AisOldestReplaced /\ AisOwnSeparate /\ MultipartKept

=============================================================================
