----------------------------- MODULE MCReaders -----------------------------
(* Rings whose names begin others (uvd, uvd_enc0) or share a family        *)
(* (sdma0, sdma1), clients of every shape, entries of two devices and      *)
(* revisions, numbers of one and two digits, keys that hold other keys,    *)
(* and tables of revisions that are drawn and that are not.                *)
EXTENDS Readers

MCRingNames == {<<"gfx">>, <<"sdma", "0">>, <<"sdma", "1">>, <<"uvd">>, <<"uvd", "enc0">>}
MCClients ==
    [command : {"a", "unknow"}, uid : {"u0", "u1"}, shape : {"plain"}]
    \cup [command : {"a"}, uid : {"u0"}, shape : {"spaced", "long_pid", "long_uid"}]
MCIdEntries ==
    [did : {1, 2}, rid : {0, 1}, name : [head : {"x", "y"}, tail : {""}]]
    \cup [did : {1}, rid : {0}, name : [head : {"z"}, tail : {"'s"}]]
MCCpuLines ==
    [key : {<<"cpu", "cores">>, <<"siblings">>}, value : {<<8>>, <<1, 6>>, <<3, 2>>}]
    \cup [key : {<<"cpu", "family">>, <<"model", "name">>}, value : {<<6>>}]
MCKeyLines ==
    [key : {<<"Mem", "Total">>, <<"Swap", "Total">>, <<"Total">>, <<"Mem">>}, value : {1, 2}]
MCBiosTables ==
    [table : Tables, format : {2, 3}, content : {3}]
MCAccounts == {"u0", "cut"}

=============================================================================
