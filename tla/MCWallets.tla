----------------------------- MODULE MCWallets -----------------------------
\* A treasury with a little of both and a project's wallets: EVM's with USDC, and
\* without gas or with some, and a prefixed one.
\* The treasury may still have to be made.
EXTENDS Wallets

CONSTANT shop

Pair(evm, foo) == [EVM |-> evm, FOO |-> foo]

Start(treasury, addr, key, gas) ==
  [vault |-> [treasury |-> treasury, addr |-> addr, key |-> key, oldAddr |-> Pair(None, None),
              oldKey |-> Pair(None, None), payTo |-> 2],
   eth   |-> [w \in Wallet |-> IF w = 1 THEN 2 ELSE IF w = 2 THEN gas ELSE 0],
   usdc  |-> [w \in Wallet |-> IF w \in {1, 2} THEN 1 ELSE 0],
   minted |-> 3]

\* Two wallets under their own names; one under both; a prefixed key that has no
\* address beside EVM's pair; and one that has EVM_ADDRESS and no EVM key beside it.
MCVaults0 ==
  {Start(treasury, Pair(2, 3), Pair(2, 3), gas) : treasury \in {1, None}, gas \in {0, 2}}
  \cup {Start(1, Pair(2, 2), Pair(2, 2), 2), Start(1, Pair(2, None), Pair(2, 3), 2),
        Start(1, Pair(2, None), Pair(None, 2), 2)}
=============================================================================
