---------------------------- MODULE MCOperations ----------------------------
EXTENDS Operations, TLC

CONSTANTS o1, o2, pt1, pt2

SE == INSTANCE SequencesExt
MCSetToList(S) == SE!SetToSeq(S)

Good(p) == [point |-> p, valid |-> TRUE]
Bad(p)  == [point |-> p, valid |-> FALSE]
Batches == {<<>>, <<Good(pt1), Good(pt2)>>, <<Good(pt1), Bad(pt2)>>}

Full == [name |-> "p", duration |-> "given"]

(* Every method with arguments that pass, and with each argument that may  *)
(* not be empty left empty.                                                *)
MCAllCalls ==
    UNION {[op : {"Ping"}, index : {0, 1}],
           QueryCall,
           [op : {"CreateDatabase"}, db : {"", "d"}, rpConfig : {NoConfig}],
           ShowDatabaseCall,
           [op : {"DropDatabase"}, db : {"", "d"}],
           [op : {"CreateRetentionPolicy"}, db : {"d"},
            rpConfig : {Full, [Full EXCEPT !.name = ""], [Full EXCEPT !.duration = ""]}],
           [op : {"ShowRetentionPolicies"}, db : {"", "d"}],
           [op : {"DropRetentionPolicy"}, db : {"d"}, rp : {"", "p"}],
           [op : {"CreateRetentionPolicy"}, db : {""}, rpConfig : {Full}],
           [op : {"DropRetentionPolicy"}, db : {""}, rp : {"p"}],
           [op : {"Write"}, db : {"d"}, rp : {"p"}, points : Batches],
           [op : {"Write"}, db : {""}, rp : {""}, points : {<<Good(pt1)>>}]}

(* A new cluster, and one on which somebody has been before.               *)
MCInitialStores ==
    {[databases |-> {}, policies |-> {}, points |-> {}],
     [databases |-> {"d"}, policies |-> {<<"d", "p">>}, points |-> {}]}

Symmetry == Permutations({o1, o2})
=============================================================================
