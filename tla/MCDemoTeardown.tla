--------------------------- MODULE MCDemoTeardown ---------------------------
EXTENDS DemoTeardown

MCFoundation   == {"net", "postgres"}
MCControlPlane == {"control_plane"}
MCRestored     == {"restored"}
MCForeign      == {"stranger"}
MCNetworks     == {"net"}
=============================================================================
