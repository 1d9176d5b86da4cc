---------------------------- MODULE OrderAssets ----------------------------
(***************************************************************************)
(* Open orders with the asset of each key: the strategies that place them  *)
(* (Koen, Tob) do so asset by asset.                                       *)
(***************************************************************************)
EXTENDS OpenOrders

CONSTANTS Assets, AssetOf

ASSUME OrderAssetsAssumption == AssetOf \in [Keys -> Assets]

AssetOfOrder(o) == AssetOf[KeyOf[o]]
=============================================================================
