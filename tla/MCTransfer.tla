------------------------------ MODULE MCTransfer ------------------------------
(* Sync jobs and tapes, which share nothing but the snapshots they copy, and *)
(* below the tapes a drive and a changer: part is the one whose steps are    *)
(* explored.                                                                 *)
EXTENDS Sync, Tape, TapeDrive, Changer

VARIABLE part

deviceVars == <<driveVars, changerVars>>
transferVars == <<part, syncVars, tapeVars, deviceVars>>

(* Sync: an option each for the paths of a pull, and a push. *)
Opt(op, removeVanished, verifiedOnly, resyncCorrupt, last, key) ==
    [op |-> op, removeVanished |-> removeVanished, verifiedOnly |-> verifiedOnly,
     resyncCorrupt |-> resyncCorrupt, last |-> last, key |-> key]

(* Sync: a pull for each path of the code, and a push. *)
MCOptions ==
    {Opt("pull", TRUE, FALSE, TRUE, 1, TRUE), Opt("pull", FALSE, TRUE, FALSE, 0, TRUE),
     Opt("push", TRUE, FALSE, FALSE, 0, TRUE)}
MCArchives ==
    {[idx |-> {<<1, FALSE>>}, enc |-> FALSE, pushed |-> FALSE],
     [idx |-> {<<1, FALSE>>, <<2, FALSE>>}, enc |-> TRUE, pushed |-> FALSE],
     [idx |-> {<<1, FALSE>>}, enc |-> TRUE, pushed |-> TRUE]}

(* Tapes: two snapshots that share a chunk. *)
MCSnapChunks(s) == CASE s = "a1" -> {"c1"} [] s = "a2" -> {"c1", "c2"}
MCStoreOf(x) == "A"

(* Drives: LTO drives of two vendors, one of them with WORM media, and the *)
(* virtual drive.  Chunks fill less and more than a block, and a piece.    *)
MCDrives ==
    {[virtual |-> FALSE, worm |-> FALSE, enc |-> TRUE, quirk |-> -1],
     [virtual |-> FALSE, worm |-> TRUE, enc |-> FALSE, quirk |-> 0],
     [virtual |-> TRUE, worm |-> FALSE, enc |-> FALSE, quirk |-> 0]}
MCChunkSize(c) == CASE c = "k1" -> 1 [] c = "k2" -> 3 [] c = "k3" -> 4
MCEncrypted(s) == s = "e"

(* Changer: three slots, an import/export slot and two drives, with labelled *)
(* tapes or with a tape that is not and a cleaning unit; pairs of commands.  *)
Labels(t1, t2) == [t \in Cartridge |-> CASE t = "t1" -> t1 [] t = "t2" -> t2 [] OTHER -> NoCartridge]
Given(op, of, n) == [op |-> op, of |-> of, slot |-> n]
OfAll(op) == Given(op, NoCartridge, 1)
Labelled(a, b) ==
    [slot |-> <<"t1", "t2", NoCartridge, NoCartridge>>, label |-> Labels("t1", "t2"), listed |-> {}, commands |-> {a, b}]
Unlabelled(a, b) ==
    [slot |-> <<"t1", "t2", "cln", NoCartridge>>, label |-> Labels("t1", NoCartridge), listed |-> {"t1"}, commands |-> {a, b}]
MCScenes ==
    {Labelled(Given("request", "t1", 1), Given("request", "t2", 1)),
     Labelled(Given("request", "t1", 1), Given("export", "t1", 1)),
     Labelled(Given("load", "t1", 1), Given("load slot", NoCartridge, 2)),
     Labelled(OfAll("inventory"), OfAll("unload")),
     Unlabelled(OfAll("barcode"), OfAll("clean")),
     Unlabelled(OfAll("barcode"), Given("load", "t2", 1))}

(* The parts that are not explored have one initial state. *)
Init ==
    /\ part \in {"sync", "tape", "drive", "changer"}
    /\ SyncInit /\ TapeInit /\ DriveInit /\ ChangerInit
    /\ part # "drive" => hw = CHOOSE h \in MCDrives : TRUE
    /\ part # "changer" => commands = (CHOOSE x \in MCScenes : TRUE).commands

SyncJobs == part = "sync" /\ SyncNext /\ UNCHANGED <<part, tapeVars, deviceVars>>
Tapes == part = "tape" /\ TapeNext /\ UNCHANGED <<part, syncVars, deviceVars>>
TapeDrives == part = "drive" /\ DriveNext /\ UNCHANGED <<part, syncVars, tapeVars, changerVars>>
Changers == part = "changer" /\ ChangerNext /\ UNCHANGED <<part, syncVars, tapeVars, driveVars>>

Next == SyncJobs \/ Tapes \/ TapeDrives \/ Changers

Spec == Init /\ [][Next]_transferVars

-----------------------------------------------------------------------------

(* The devices do what the tape jobs rely on: a file of a tape gives back    *)
(* what its writer was told, and a task works on the tape that it asked for. *)
DevicesInv == (part = "drive" => DriveInv) /\ (part = "changer" => ChangerInv)
=============================================================================
