------------------------------- MODULE Presets -------------------------------
(***************************************************************************)
(* The trainer presets of Phase 0, as the program's own code has them      *)
(* (runspec/preset/fixtures.go).  The migration has them a second time, as *)
(* rows: see Schema.                                                       *)
(***************************************************************************)
EXTENDS Integers

(* PresetAxolotlLoRASFT and PresetUnslothLoRASFT *)
Axolotl == "axolotl"
Unsloth == "unsloth"

(* m * 10^e *)
Decimal(m, e) == <<m, e>>

Rule(type, min, max) == [type |-> type, min |-> min, max |-> max]

loraSFTOptionPolicy ==
    [learning_rate    |-> Rule("float", 0, 1),
     num_epochs       |-> Rule("int", 1, 100),
     max_seq_length   |-> Rule("int", 128, 32768),
     lora_r           |-> Rule("int", 1, 256),
     lora_alpha       |-> Rule("int", 1, 512),
     micro_batch_size |-> Rule("int", 1, 64)]

DefaultValues ==
    [learning_rate    |-> Decimal(2, -4),
     num_epochs       |-> Decimal(3, 0),
     max_seq_length   |-> Decimal(4096, 0),
     lora_r           |-> Decimal(16, 0),
     lora_alpha       |-> Decimal(32, 0),
     micro_batch_size |-> Decimal(1, 0)]

(* Image, entrypoint and environment of a runtime go together: its image *)
(* stands for all three.                                                 *)
TrainerPreset(image) ==
    [image |-> image, defaults |-> DefaultValues, policy |-> loraSFTOptionPolicy]

(* What NewStaticRegistry makes of it: presets by ID. *)
Phase0Presets ==
    [id \in {Axolotl, Unsloth} |->
        TrainerPreset(IF id = Axolotl THEN "axolotl:latest" ELSE "unsloth:latest")]
=============================================================================
