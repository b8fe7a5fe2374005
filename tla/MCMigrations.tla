---------------------------- MODULE MCMigrations ----------------------------
EXTENDS Migrations, TLC

\* Older and newer deployments know fewer or more of the migrations.
Prefixes == {1..k : k \in 1..N}

\* The second migration runs outside a transaction one way or both.
SecondNonTx == {<<"up", 2>>, <<"down", 2>>}

Symmetry == Permutations(Proc)
=============================================================================
