---------------------------- MODULE MCNvmeDevice ----------------------------
(***************************************************************************)
(* Three controllers: one that may refuse every command, one that answers  *)
(* identify commands, and one that carries out the second commands of      *)
(* creations and deletions.                                                *)
(***************************************************************************)
EXTENDS NvmeDevice

MCRefusals ==
    {Opcode, Opcode \ {"identify_list", "identify_namespace"}, Opcode \ {"create_sq", "delete_cq"}}
=============================================================================
