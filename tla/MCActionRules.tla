---------------------------- MODULE MCActionRules ----------------------------
(***************************************************************************)
(* ActionRules for TLC: the processes s1 and the loader, commands that     *)
(* register a rule, remove one, are refused or have a field missing, and   *)
(* handles that another driver has restricted already.                     *)
(***************************************************************************)
EXTENDS ActionRules

CONSTANTS f1, f2

MCFiles == <<f1, f2>>

MCImage == {"s1", "loader"}

MCContents == Rule \cup {f1, f2}

MCCommands ==
    {<<"DELETE", "BLOCK", "s1", "process_Create">>,
     <<"DELETE", "BLOCK", "loader", "process_Remove">>,
     <<"REGISTER", "BLOCK", "s1", "process_Create">>,
     <<"BLOCK", "s1", "process_Remove">>,
     <<"DELETE", "PERMIT", "s1", "network">>,
     <<"DELETE", "BLOCK", "long">>}

Everything == {"PROCESS_CREATE_PROCESS", "PROCESS_TERMINATE", "PROCESS_VM_READ"}

MCAsks ==
    {[op |-> "CREATE", original |-> Everything, desired |-> {"PROCESS_CREATE_PROCESS"}],
     [op |-> "DUPLICATE", original |-> Everything, desired |-> Everything]}
=============================================================================
