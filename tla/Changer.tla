------------------------------ MODULE Changer ------------------------------
(***************************************************************************)
(* A tape changer with several drives.  A task holds the lock of one       *)
(* drive, but the slots are shared and have no lock: a task reads the      *)
(* status of the changer, decides on slot numbers, and moves a tape, while *)
(* tasks of other drives and administrators move tapes too.  The status is *)
(* read with one command for the slots and one for the drives.             *)
(*                                                                         *)
(* A tape is named by its barcode; it is labelled with a text, which the   *)
(* inventory knows.  A move fails when its source is empty or its target   *)
(* is not.  Ejecting before unloading, alert flags, media sets, catalogs   *)
(* (see Tape), the locations of the inventory and the cached status that   *)
(* is only displayed are left out.                                         *)
(***************************************************************************)
EXTENDS Integers, FiniteSets, FiniteSetsExt

CONSTANTS
    Cartridge,     \* tapes, by barcode
    Cleaning,      \* barcodes of cleaning units
    Slot,          \* numbers of slots
    ImportExport,  \* those that are import/export slots
    DriveNr,       \* numbers of drives
    Scenes,        \* where the tapes are at first, how they are labelled, which are
                   \* listed in the inventory, and the commands that will be given
    NoCartridge,
    MaxTransfers, MaxFaults   \* bounds

ASSUME ChangerNames == NoCartridge \notin Cartridge /\ ImportExport \subseteq Slot

VARIABLES
    slot,    \* tape in a slot
    drive,   \* tape in a drive, and the slot it came from
    label,   \* text a tape is labelled with
    inventory,     \* the inventory: label texts and tapes
    task,    \* the task that holds a drive's lock
    commands,\* what is to be started yet
    budget,  \* transfers and faults so far
    stale,   \* history: drives whose task decides on a status after which others moved tapes
    raced,   \* history: tapes moved or labelled by such a task
    put      \* history: tapes that somebody asked to have in an import/export slot

changerVars == <<slot, drive, label, inventory, task, commands, budget, stale, raced, put>>

-----------------------------------------------------------------------------

Empty == [tape |-> NoCartridge, from |-> 0]
Unseen == [slots |-> [s \in Slot |-> NoCartridge], drives |-> [d \in DriveNr |-> Empty]]
NoPlan == [from |-> <<"slot", 0>>, to |-> <<"slot", 0>>]
NoTask == [op |-> "none", of |-> NoCartridge, want |-> NoCartridge, phase |-> "idle", next |-> "none",
           seen |-> Unseen, plan |-> NoPlan, failed |-> FALSE, todo |-> {}]

ChangerInit ==
    /\ \E l \in Scenes :
           /\ slot = l.slot /\ label = l.label /\ commands = l.commands
           /\ inventory = {[text |-> l.label[t], of |-> t] : t \in l.listed}
    /\ drive = [d \in DriveNr |-> Empty]
    /\ task = [d \in DriveNr |-> NoTask]
    /\ budget = [transfers |-> 0, faults |-> 0]
    /\ stale = {} /\ raced = {}
    /\ put = {}

-----------------------------------------------------------------------------
(* The device *)

At(e) == IF e[1] = "slot" THEN slot[e[2]] ELSE drive[e[2]].tape
CanMove(p) == At(p.from) # NoCartridge /\ At(p.to) = NoCartridge

(* MOVE MEDIUM: load_slot, unload and transfer_medium. *)
MoveMedium(p) ==
    /\ slot' = [s \in Slot |-> IF <<"slot", s>> = p.to THEN At(p.from)
                               ELSE IF <<"slot", s>> = p.from THEN NoCartridge ELSE slot[s]]
    /\ drive' = [d \in DriveNr |->
                   IF <<"drive", d>> = p.to
                   THEN [tape |-> At(p.from), from |-> IF p.from[1] = "slot" THEN p.from[2] ELSE 0]
                   ELSE IF <<"drive", d>> = p.from THEN Empty ELSE drive[d]]

Load(s, d) == [from |-> <<"slot", s>>, to |-> <<"drive", d>>]
Unload(s, d) == [from |-> <<"drive", d>>, to |-> <<"slot", s>>]

(* A move by somebody else makes what the other tasks have seen old. *)
Moved(d) == stale' = stale \cup (DriveNr \ {d})

-----------------------------------------------------------------------------
(* Tasks: phases are "slots" and "drives" while the status is read, then   *)
(* "decide" on what was seen, "move", "label" when a tape was loaded, and  *)
(* "working" with a tape that was asked for.                               *)

SetTask(d, t) == task' = [task EXCEPT ![d] = t]
Status(t, next) == [t EXCEPT !.phase = "slots", !.next = next, !.seen = Unseen, !.plan = NoPlan]
Planned(t, plan, next) == [t EXCEPT !.phase = "move", !.plan = plan, !.next = next, !.failed = FALSE]

(* run_drive_worker: the lock of the drive is taken.  A request is for a *)
(* labelled tape, by its label text.                                     *)
StartTask(d, c) ==
    LET t == [NoTask EXCEPT !.op = c.op, !.of = c.of, !.want = c.of]
    IN  /\ task[d].op = "none" /\ commands' = commands \ {c}
        /\ c.op = "request" => label[c.of] # NoCartridge
        /\ put' = IF c.op = "export" THEN put \cup {c.of}
                  ELSE IF c.op = "load slot" THEN put \cup {slot[c.slot]} ELSE put
        /\ SetTask(d, CASE c.op \in {"load", "request"} ->
                         Status([t EXCEPT !.want = IF c.op = "request" THEN label[c.of] ELSE c.of], "load")
                    [] c.op \in {"inventory", "barcode"} -> Status(t, "list")
                    [] c.op = "load slot" -> Planned(t, Load(c.slot, d), "loaded")
                    [] OTHER -> Status(t, c.op))
        /\ UNCHANGED <<slot, drive, label, inventory, budget, stale, raced>>

(* read_element_status *)
ReadSlots(d) ==
    /\ task[d].phase = "slots"
    /\ SetTask(d, [task[d] EXCEPT !.phase = "drives", !.seen.slots = slot])
    /\ stale' = IF task[d].next \in {"load", "unload", "clean", "export"} THEN stale \ {d} ELSE stale
    /\ UNCHANGED <<slot, drive, label, inventory, budget, raced, put, commands>>

ReadDrives(d) ==
    /\ task[d].phase = "drives"
    /\ SetTask(d, [task[d] EXCEPT !.phase = "decide", !.seen.drives = drive])
    /\ UNCHANGED <<slot, drive, label, inventory, budget, stale, raced, put, commands>>

(* The task is over, or tries again, when the changer could not do it. *)
GiveUp(t) == IF t.op = "request" THEN [t EXCEPT !.phase = "retry"]
             ELSE IF t.op \in {"inventory", "barcode"} THEN [t EXCEPT !.phase = "item"]
             ELSE NoTask

StatusFails(d) ==
    /\ task[d].phase \in {"slots", "drives"} /\ budget.faults < MaxFaults
    /\ budget' = [budget EXCEPT !.faults = @ + 1]
    /\ SetTask(d, IF task[d].next \in {"load", "find", "loaded"} THEN GiveUp(task[d]) ELSE NoTask)
    /\ UNCHANGED <<slot, drive, label, inventory, stale, raced, put, commands>>

(* The robot moves a tape, or reports that it cannot; the status is read *)
(* in both cases.                                                        *)
MoveTape(d) ==
    LET t == task[d]
    IN  /\ t.phase = "move"
        /\ IF CanMove(t.plan) THEN MoveMedium(t.plan) /\ Moved(d) ELSE UNCHANGED <<slot, drive, stale>>
        /\ SetTask(d, [t EXCEPT !.phase = "slots", !.failed = ~CanMove(t.plan), !.seen = Unseen])
        /\ raced' = IF CanMove(t.plan) /\ d \in stale THEN raced \cup {At(t.plan.from)} ELSE raced
        /\ UNCHANGED <<label, inventory, budget, put, commands>>

(* transfer: an administrator moves a tape between slots, with no lock. *)
Transfer(from, to) ==
    LET p == [from |-> <<"slot", from>>, to |-> <<"slot", to>>]
    IN  /\ budget.transfers < MaxTransfers /\ CanMove(p)
        /\ MoveMedium(p)
        /\ stale' = DriveNr
        /\ put' = IF to \in ImportExport THEN put \cup {slot[from]} ELSE put
        /\ budget' = [budget EXCEPT !.transfers = @ + 1]
        /\ UNCHANGED <<label, inventory, task, raced, commands>>

-----------------------------------------------------------------------------
(* Decisions on the status that was seen *)

InSlots(t, tape, slots) == {s \in slots : t.seen.slots[s] = tape}

(* unload_to_free_slot: back to where the tape came from if that is free, *)
(* else to the first free slot that is not an import/export slot.         *)
UnloadTarget(t, d) ==
    LET from == t.seen.drives[d].from
        free == InSlots(t, NoCartridge, Slot \ ImportExport)
    IN  IF from # 0 /\ t.seen.slots[from] = NoCartridge THEN {from}
        ELSE IF free = {} THEN {} ELSE {Min(free)}

UnloadOr(t, d, next, fails) ==
    IF UnloadTarget(t, d) = {} THEN fails
    ELSE Planned(t, Unload(Max(UnloadTarget(t, d)), d), next)

Loaded(t) == IF t.op \in {"load", "load slot"} THEN NoTask ELSE [t EXCEPT !.phase = "label"]

(* load_media, after the status and after the unload. *)
FindAndLoad(t, d) ==
    LET found == InSlots(t, t.want, Slot)
    IN  IF t.failed \/ found = {} THEN GiveUp(t)
        ELSE IF Min(found) \in ImportExport THEN GiveUp(t)
        ELSE Planned(t, Load(Min(found), d), "loaded")

LoadByText(t, d) ==
    LET inDrive == {e \in DriveNr : t.seen.drives[e].tape = t.want}
    IN  IF t.want \in Cleaning THEN GiveUp(t)
        ELSE IF inDrive # {} THEN (IF Min(inDrive) = d THEN Loaded(t) ELSE GiveUp(t))
        ELSE IF t.seen.drives[d].tape # NoCartridge THEN UnloadOr(t, d, "find", GiveUp(t))
        ELSE FindAndLoad([t EXCEPT !.failed = FALSE], d)

(* clean_drive: the drive is emptied, and the cleaning unit goes in and back. *)
LoadCleaner(t, d) ==
    LET found == UNION {InSlots(t, c, Slot \ ImportExport) : c \in Cleaning}
    IN  IF t.failed \/ found = {} THEN NoTask ELSE Planned(t, Load(Min(found), d), "cleaned")

Clean(t, d) ==
    IF t.seen.drives[d].tape # NoCartridge THEN UnloadOr(t, d, "cleaner", NoTask)
    ELSE LoadCleaner([t EXCEPT !.failed = FALSE], d)

(* export_media: from this drive or from a slot, to the first free one. *)
Export(t, d) ==
    LET to == InSlots(t, NoCartridge, ImportExport)
        from == InSlots(t, t.want, Slot \ ImportExport)
    IN  IF to = {} THEN NoTask
        ELSE IF t.seen.drives[d].tape = t.want THEN Planned(t, Unload(Min(to), d), "done")
        ELSE IF from = {} THEN NoTask
        ELSE Planned(t, [from |-> <<"slot", Max(from)>>, to |-> <<"slot", Min(to)>>], "done")

(* online_media_label_texts, for the jobs that go through all tapes. *)
Online(t) ==
    ({t.seen.drives[e].tape : e \in DriveNr} \cup {t.seen.slots[s] : s \in Slot \ ImportExport})
        \ ({NoCartridge} \cup Cleaning)

Decided(t, d) ==
    CASE t.next = "load" -> LoadByText(t, d)
      [] t.next = "find" -> FindAndLoad(t, d)
      [] t.next = "loaded" -> IF t.failed THEN GiveUp(t) ELSE Loaded(t)
      [] t.next = "unload" -> UnloadOr(t, d, "done", NoTask)
      [] t.next = "clean" -> Clean(t, d)
      [] t.next = "cleaner" -> LoadCleaner(t, d)
      [] t.next = "cleaned" -> IF t.failed THEN NoTask ELSE Planned(t, Unload(t.plan.from[2], d), "done")
      [] t.next = "export" -> Export(t, d)
      [] t.next = "list" -> [t EXCEPT !.phase = "item", !.todo = Online(t)]
      [] t.next = "done" -> IF t.op = "inventory" /\ ~t.failed THEN [t EXCEPT !.phase = "item"] ELSE NoTask

Decide(d) ==
    /\ task[d].phase = "decide"
    /\ SetTask(d, Decided(task[d], d))
    /\ UNCHANGED <<slot, drive, label, inventory, budget, stale, raced, put, commands>>

-----------------------------------------------------------------------------
(* With the tape in the drive *)

(* Mutant: the label of the tape in the drive is not compared. *)
CheckLabelSkipped(d) ==
    LET t == task[d]
    IN  /\ t.phase = "label" /\ t.op = "request"
        /\ SetTask(d, [t EXCEPT !.phase = "working"])
        /\ UNCHANGED <<slot, drive, label, inventory, budget, stale, raced, put, commands>>

(* request_and_load_media: the task has a tape only when its label is the *)
(* one of the tape that it asked for; otherwise it asks again.            *)
CheckLabel(d) ==
    LET t == task[d]
    IN  /\ t.phase = "label" /\ t.op = "request"
        /\ SetTask(d, IF drive[d].tape = t.of /\ label[t.of] # NoCartridge
                  THEN [t EXCEPT !.phase = "working"] ELSE GiveUp(t))
        /\ UNCHANGED <<slot, drive, label, inventory, budget, stale, raced, put, commands>>

(* Five seconds later, unless the task is aborted. *)
Retry(d) ==
    /\ task[d].phase = "retry"
    /\ \E abort \in BOOLEAN : SetTask(d, IF abort THEN NoTask ELSE Status(task[d], "load"))
    /\ UNCHANGED <<slot, drive, label, inventory, budget, stale, raced, put, commands>>

EndWork(d) ==
    /\ task[d].phase = "working"
    /\ SetTask(d, NoTask)
    /\ UNCHANGED <<slot, drive, label, inventory, budget, stale, raced, put, commands>>

(* The next tape of an inventory or of barcode labelling.  A tape that the *)
(* inventory knows is left alone, unless all labels are to be read, or its *)
(* catalog is wanted and not there.                                        *)
NextItem(d) ==
    LET t == task[d]
    IN  /\ t.phase = "item"
        /\ \/ t.todo = {} /\ SetTask(d, NoTask)
           \/ \E x \in t.todo, again \in {FALSE, t.op = "inventory"} :
                  LET rest == [t EXCEPT !.todo = @ \ {x}]
                  IN  SetTask(d, IF ~again /\ (\E e \in inventory : e.text = x) THEN rest
                             ELSE Status([rest EXCEPT !.want = x], "load"))
        /\ UNCHANGED <<slot, drive, label, inventory, budget, stale, raced, put, commands>>

(* update_inventory.  The tape stays in the drive when its label has       *)
(* another text than the barcode, and when it has the label of a pool but  *)
(* is not assigned to a media set.                                         *)
InventorizeMedia(d) ==
    LET t == task[d]
        x == drive[d].tape
    IN  /\ t.phase = "label" /\ t.op = "inventory"
        /\ IF x = NoCartridge THEN SetTask(d, NoTask) /\ UNCHANGED inventory
           ELSE IF label[x] # NoCartridge /\ label[x] # t.want
                THEN SetTask(d, [t EXCEPT !.phase = "item"]) /\ UNCHANGED inventory
           ELSE /\ inventory' = IF label[x] = NoCartridge THEN inventory ELSE inventory \cup {[text |-> label[x], of |-> x]}
                /\ \E stays \in {FALSE, label[x] # NoCartridge} :
                       SetTask(d, IF stays THEN [t EXCEPT !.phase = "item"] ELSE Status(t, "unload"))
        /\ UNCHANGED <<slot, drive, label, budget, stale, raced, put, commands>>

(* barcode_label_media_worker: an empty tape gets the text that was asked *)
(* for; nothing says that it is the one in the drive.                     *)
BarcodeLabel(d) ==
    LET t == task[d]
        x == drive[d].tape
        empty == x # NoCartridge /\ x \notin Cleaning /\ label[x] = NoCartridge
    IN  /\ t.phase = "label" /\ t.op = "barcode"
        /\ label' = IF empty THEN [label EXCEPT ![x] = t.want] ELSE label
        /\ inventory' = IF empty THEN inventory \cup {[text |-> t.want, of |-> x]} ELSE inventory
        /\ SetTask(d, IF x = NoCartridge THEN NoTask ELSE [t EXCEPT !.phase = "item"])
        /\ raced' = IF empty /\ d \in stale THEN raced \cup {x} ELSE raced
        /\ UNCHANGED <<slot, drive, budget, stale, put, commands>>

ChangerNext ==
    \/ \E d \in DriveNr :
           \/ \E c \in commands : StartTask(d, c)
           \/ ReadSlots(d) \/ ReadDrives(d) \/ StatusFails(d) \/ Decide(d) \/ MoveTape(d)
           \/ CheckLabel(d) \/ Retry(d) \/ EndWork(d)
           \/ NextItem(d) \/ InventorizeMedia(d) \/ BarcodeLabel(d)
    \/ \E from, to \in Slot : Transfer(from, to)

-----------------------------------------------------------------------------
(* Properties *)

(* A task that works with a tape has the tape it asked for in its drive    *)
(* for as long as it works, whatever tasks of other drives and transfers   *)
(* do to the slots: the label is checked after the tape is loaded, and     *)
(* only the holder of a drive's lock empties the drive.                    *)
WorksOnWanted ==
    \A d \in DriveNr : task[d].phase = "working" => drive[d].tape = task[d].of

(* The inventory names a tape by the label it carries, although a load by  *)
(* a slot number may have put another tape into the drive.                 *)
InventoryTrue == \A e \in inventory : label[e.of] = e.text

(* A tape is labelled with its own barcode unless somebody moved tapes     *)
(* after the labelling task had read the status it decided on.             *)
LabelledRight == \A t \in Cartridge : label[t] \in {NoCartridge, t} \/ t \in raced

(* A tape gets to an import/export slot only when somebody asked for it, or *)
(* loaded it from there, or when a task acted on a status that was out of   *)
(* date: unloading a drive never uses up such a slot.                       *)
ExportsAsked ==
    \A s \in ImportExport : slot[s] # NoCartridge => slot[s] \in put \cup raced

(* What decides about an idle drive's tape is not out of date: the holder  *)
(* of the lock sees its own drive as it is, also when slots have changed.  *)
OwnDriveSeen ==
    \A d \in DriveNr : task[d].phase \in {"decide", "move"} /\ task[d].op # "load slot" =>
        task[d].seen.drives[d] = drive[d]

ChangerInv == WorksOnWanted /\ InventoryTrue /\ LabelledRight /\ ExportsAsked /\ OwnDriveSeen
=============================================================================
